---------------------------- MODULE Spec2Model ----------------------------
(***************************************************************************)
(* A model of the depth-map photo viewer: the App's image selection        *)
(* (onFiles), the ParticleSystem of ThreeViewer.tsx (field builder,        *)
(* samplers, frame updater) and the noise generators it animates with.     *)
(*                                                                         *)
(* Numbers.  JavaScript numbers are modelled as fixed-point integers in    *)
(* units of 1/UNIT; a product or quotient is rounded to the nearest unit   *)
(* (the model's finite precision in place of IEEE rounding).  UNIT is      *)
(* divisible by every grid divisor (sampleW-1) the bounds allow and by     *)
(* 100, so the grid fractions and the sliders' decimal steps are exact.    *)
(* NaN is the one value outside the number line; every arithmetic          *)
(* operator propagates it as IEEE arithmetic does.                         *)
(***************************************************************************)
EXTENDS Integers, Sequences, FiniteSets, TLC

\* null / undefined; every nullable value of the model is a record
NULL == [null |-> TRUE]

-----------------------------------------------------------------------------
(* Fixed-point arithmetic *)

UNIT == 60 * 100
HALF == UNIT \div 2

\* the result of 0/0 and of every operation on it
NaN == 0 - (2 ^ 30)

IsNaN(a) == a = NaN

Abs(a) == IF a < 0 THEN 0 - a ELSE a

MinI(a, b) == IF a < b THEN a ELSE b
MaxI(a, b) == IF a > b THEN a ELSE b

\* n/d rounded to the nearest integer (d > 0), halves away from zero
RoundDiv(n, d) ==
    IF n >= 0 THEN (2 * n + d) \div (2 * d)
              ELSE 0 - ((2 * (0 - n) + d) \div (2 * d))

\* a + b
Add(a, b) == IF IsNaN(a) \/ IsNaN(b) THEN NaN ELSE a + b

\* a - b
Sub(a, b) == IF IsNaN(a) \/ IsNaN(b) THEN NaN ELSE a - b

\* a * b of two fixed-point numbers
Mul(a, b) == IF IsNaN(a) \/ IsNaN(b) THEN NaN ELSE RoundDiv(a * b, UNIT)

\* a * k for an integer literal k
Scale(a, k) == IF IsNaN(a) THEN NaN ELSE a * k

\* a / b of two fixed-point numbers (the program never divides a nonzero
\* number by zero; 0/0 is NaN)
Div(a, b) ==
    IF IsNaN(a) \/ IsNaN(b) THEN NaN
    ELSE IF b = 0 THEN NaN
    ELSE IF b > 0 THEN RoundDiv(a * UNIT, b)
    ELSE RoundDiv((0 - a) * UNIT, 0 - b)

\* the integers x and y as the number x / y
Ratio(x, y) ==
    IF y = 0 THEN NaN ELSE RoundDiv(x * UNIT, y)

\* Math.max(a, b), Math.min(a, b): NaN if either argument is NaN
MathMax(a, b) == IF IsNaN(a) \/ IsNaN(b) THEN NaN ELSE MaxI(a, b)
MathMin(a, b) == IF IsNaN(a) \/ IsNaN(b) THEN NaN ELSE MinI(a, b)

\* Math.floor(a) as an integer (NaN stays NaN)
MathFloor(a) == IF IsNaN(a) THEN NaN ELSE a \div UNIT

\* ToInt32(n) & 255 ; NaN converts to 0
And255(n) == IF IsNaN(n) THEN 0 ELSE n % 256

-----------------------------------------------------------------------------
(* PerlinNoise: the seeded permutation table *)

LcgMod == 233280

\* state = (state * 9301 + 49297) % 233280, the product split so that no
\* intermediate value leaves 32 bits
LcgNext(state) ==
    (((state * 4650) % LcgMod) * 2 + state + 49297) % LcgMod

\* a loop body that copies entry j to entry i without writing entry i back
ShuffleStepOverwriting(ps, i) ==
    LET s == LcgNext(ps.state)
        j == (s * (i + 1)) \div LcgMod
    IN  [p |-> [ps.p EXCEPT ![i] = ps.p[j]], state |-> s]

\* one pass of the constructor's Fisher-Yates loop at index i:
\* j = Math.floor(random() * (i + 1)), then swap entries i and j
ShuffleStep(ps, i) ==
    LET s == LcgNext(ps.state)
        j == (s * (i + 1)) \div LcgMod
    IN  [p |-> [ps.p EXCEPT ![i] = ps.p[j], ![j] = ps.p[i]], state |-> s]

\* the loop for i = hi down to lo (split in halves to bound the nesting)
RECURSIVE ShuffleRange(_, _, _)
ShuffleRange(ps, hi, lo) ==
    IF hi < lo THEN ps
    ELSE IF hi = lo THEN ShuffleStep(ps, hi)
    ELSE LET mid == (hi + lo) \div 2
             upper == ShuffleRange(ps, hi, mid + 1)
         IN  IF upper.state >= 0 THEN ShuffleRange(upper, mid, lo) ELSE upper

\* new PerlinNoise(seed).permutation : 512 entries, the shuffled table twice
PermutationOf(seed) ==
    LET base == ShuffleRange([p |-> [k \in 0 .. 255 |-> k], state |-> seed], 255, 1).p
    IN  [k \in 0 .. 511 |-> base[k % 256]]

\* the table of the generators the ParticleSystem builds: seed 42
Seed == 42
permutation == PermutationOf(Seed)

\* fade(t) = t * t * t * (t * (t * 6 - 15) + 10)
Fade(t) ==
    Mul(Mul(Mul(t, t), t),
        Add(Mul(t, Sub(Scale(t, 6), 15 * UNIT)), 10 * UNIT))

\* lerp(t, a, b) = a + t * (b - a)
Lerp(t, a, b) == Add(a, Mul(t, Sub(b, a)))

\* grad(hash, x, y, z)
Grad(hash, x, y, z) ==
    LET h == hash % 16
        u == IF h < 8 THEN x ELSE y
        v == IF h < 4 THEN y ELSE IF h = 12 \/ h = 14 THEN x ELSE z
        su == IF h % 2 = 0 THEN u ELSE Sub(0, u)
        sv == IF (h \div 2) % 2 = 0 THEN v ELSE Sub(0, v)
    IN  Add(su, sv)

\* the table indexes noise() computes for the cell (X, Y, Z)
NoiseIndexes(p, X, Y, Z) ==
    LET A == p[X] + Y
        B == p[X + 1] + Y
    IN  [A |-> A, AA |-> p[A] + Z, AB |-> p[A + 1] + Z,
         B |-> B, BA |-> p[B] + Z, BB |-> p[B + 1] + Z]

\* noise(): the trilinear blend of the eight corner gradients of the cell
\* with table indexes ix, for the fractions x, y, z and their fades u, v, w
NoiseBlend(p, ix, x, y, z, u, v, w) ==
    Lerp(w,
         Lerp(v,
              Lerp(u, Grad(p[ix.AA], x, y, z),
                      Grad(p[ix.BA], Sub(x, UNIT), y, z)),
              Lerp(u, Grad(p[ix.AB], x, Sub(y, UNIT), z),
                      Grad(p[ix.BB], Sub(x, UNIT), Sub(y, UNIT), z))),
         Lerp(v,
              Lerp(u, Grad(p[ix.AA + 1], x, y, Sub(z, UNIT)),
                      Grad(p[ix.BA + 1], Sub(x, UNIT), y, Sub(z, UNIT))),
              Lerp(u, Grad(p[ix.AB + 1], x, Sub(y, UNIT), Sub(z, UNIT)),
                      Grad(p[ix.BB + 1], Sub(x, UNIT), Sub(y, UNIT),
                           Sub(z, UNIT)))))

\* noise(): in cell (X, Y, Z) at the fractions x, y, z
NoiseCell(p, X, Y, Z, x, y, z) ==
    NoiseBlend(p, NoiseIndexes(p, X, Y, Z), x, y, z, Fade(x), Fade(y), Fade(z))

\* PerlinNoise.noise(x, y, z) over table p
NoiseOn(p, x0, y0, z0) ==
    NoiseCell(p,
              And255(MathFloor(x0)), And255(MathFloor(y0)), And255(MathFloor(z0)),
              Sub(x0, Scale(MathFloor(x0), UNIT)),
              Sub(y0, Scale(MathFloor(y0), UNIT)),
              Sub(z0, Scale(MathFloor(z0), UNIT)))

\* noiseGenerators.perlin.noise
Noise(x, y, z) == NoiseOn(permutation, x, y, z)

\* CurlNoise.potential: three octaves, amplitudes 1.0, 0.5, 0.25
Potential(x, y, z) ==
    Add(Add(Noise(x, y, z),
            Mul(Noise(Scale(x, 2), Scale(y, 2), Scale(z, 2)), UNIT \div 2)),
        Mul(Noise(Scale(x, 4), Scale(y, 4), Scale(z, 4)), UNIT \div 4))

\* the gradient of the potential in place of its curl
CurlFromGradient(p_dx, n_dx, p_dy, n_dy, p_dz, n_dz, e2) ==
    [x |-> Div(Sub(p_dx, n_dx), e2),
     y |-> Div(Sub(p_dy, n_dy), e2),
     z |-> Div(Sub(p_dz, n_dz), e2)]

\* curl(): the components from the six potentials around the point, with
\* e2 = 2 * epsilon
CurlFrom(p_dx, n_dx, p_dy, n_dy, p_dz, n_dz, e2) ==
    [x |-> Sub(Div(Sub(p_dz, n_dz), e2), Div(Sub(p_dy, n_dy), e2)),
     y |-> Sub(Div(Sub(p_dx, n_dx), e2), Div(Sub(p_dz, n_dz), e2)),
     z |-> Sub(Div(Sub(p_dy, n_dy), e2), Div(Sub(p_dx, n_dx), e2))]

\* CurlNoise.curl(x, y, z, epsilon)
Curl(x, y, z, epsilon) ==
    CurlFrom(Potential(Add(x, epsilon), y, z),
             Potential(Sub(x, epsilon), y, z),
             Potential(x, Add(y, epsilon), z),
             Potential(x, Sub(y, epsilon), z),
             Potential(x, y, Add(z, epsilon)),
             Potential(x, y, Sub(z, epsilon)),
             Scale(epsilon, 2))

-----------------------------------------------------------------------------
(* Bounds *)

\* image sides range over 1 .. MaxDim
MaxDim == 3
\* the density slider's positions, scaled down from 64 .. 512 to 2 .. MaxDensity
MaxDensity == 3
\* getImageData calls are counted up to MaxDecodes
MaxDecodes == 2
\* concurrent onFiles invocations in SpecApp
MaxInv == 2

-----------------------------------------------------------------------------
(* Files, URLs and pixel data *)

\* a selected file: its decoded size, or ok = FALSE for a file whose image
\* fails to load (img.onerror)
GoodFiles ==
    {[w |-> a, h |-> b, ok |-> TRUE] : a \in 1 .. MaxDim, b \in 1 .. MaxDim}
BadFile == [w |-> 0, h |-> 0, ok |-> FALSE]
\* the images the viewer is observed with: the squares and, for each width,
\* the mirrored height
ViewerFiles ==
    {f \in GoodFiles : f.h = f.w \/ f.h = MaxDim + 1 - f.w}

\* the picture of the end-to-end scenario: 4 x 4, every pixel red, for which
\* the depth estimator returns the same gray byte everywhere
RedScene(gray) == [w |-> 4, h |-> 4, ok |-> TRUE, paint |-> "red", gray |-> gray]
IsRedScene(f) == "paint" \in DOMAIN f

\* the RGB bytes of pixel (x, y) of a file's image (input data)
ColorPixel(f, x, y) ==
    IF IsRedScene(f) THEN <<255, 0, 0>>
    ELSE <<(x * 100 + 50) % 256, (y * 60 + 30) % 256, ((x + y) * 45) % 256>>

\* generateMockDepth: v = floor((1 - min(1, r / maxR)) * 255) at pixel (x, y);
\* with DX = 2 dx, DY = 2 dy the largest k with 255 r / maxR <= 255 - k
MockDepthByte(w, h, x, y) ==
    LET DX == 2 * x - w
        DY == 2 * y - h
        R2 == DX * DX + DY * DY
        M2 == w * w + h * h
        Fits(k) == 255 * 255 * R2 <= (255 - k) * (255 - k) * M2
    IN  CHOOSE k \in 0 .. 255 : Fits(k) /\ (k = 255 \/ ~Fits(k + 1))

\* the gray byte an estimator wrote at pixel (x, y) (the network's output)
ModelDepthByte(w, h, x, y) == (x * 70 + y * 40 + 15) % 256

\* the mock depth canvases of every image size, the scenario's 4 x 4 among
\* them (the gradient depends on the size alone: each byte is computed once)
MockDepthPixels ==
    [w \in 1 .. MaxI(MaxDim, 4), h \in 1 .. MaxI(MaxDim, 4),
     x \in 0 .. MaxI(MaxDim, 4) - 1, y \in 0 .. MaxI(MaxDim, 4) - 1 |->
        IF x < w /\ y < h THEN MockDepthByte(w, h, x, y) ELSE 0]

\* the gray byte of pixel (x, y) of a depth canvas
DepthByte(d, x, y) ==
    IF d.kind = "mock" THEN MockDepthPixels[d.w, d.h, x, y]
    ELSE IF IsRedScene(d.of.file) THEN d.of.file.gray
    ELSE ModelDepthByte(d.w, d.h, x, y)

\* ImageData.data of a w x h image whose pixel (x, y) has the RGB bytes
\* pixels[x, y]: RGBA bytes, row-major, as a sequence whose element k + 1 is
\* data[k]
RgbaData(w, h, pixels) ==
    [k \in 1 .. (w * h * 4) |->
        LET px == ((k - 1) \div 4) % w
            py == ((k - 1) \div 4) \div w
            c  == (k - 1) % 4
        IN  IF c = 3 THEN 255 ELSE pixels[px, py][c + 1]]

\* colorCtx.drawImage(colorTex.image) ; getImageData(0, 0, width, height)
DecodeColor(url) ==
    LET f == url.file
    IN  [width |-> f.w, height |-> f.h,
         data |-> RgbaData(f.w, f.h,
                           [x \in 0 .. f.w - 1, y \in 0 .. f.h - 1 |->
                               ColorPixel(f, x, y)])]

\* depthCtx.drawImage(dispTex.image) ; getImageData(0, 0, width, height)
DecodeDepth(durl) ==
    [width |-> durl.w, height |-> durl.h,
     data |-> RgbaData(durl.w, durl.h,
                       [x \in 0 .. durl.w - 1, y \in 0 .. durl.h - 1 |->
                           LET v == DepthByte(durl, x, y) IN <<v, v, v>>])]

\* imageData.data[index] / 255.0 ; an index outside the array (or NaN) reads
\* undefined, and undefined / 255 is NaN
ByteAt(imageData, index) ==
    IF IsNaN(index) THEN NaN
    ELSE IF index < 0 \/ index >= Len(imageData.data) THEN NaN
    ELSE Ratio(imageData.data[index + 1], 255)

-----------------------------------------------------------------------------
(* Pixel samplers *)

\* a sampler that rounds to the nearest pixel instead of taking the floor
SampleXYRounded(imageData, u, v) ==
    <<MathFloor(Add(Scale(u, imageData.width - 1), HALF)),
      MathFloor(Add(Scale(v, imageData.height - 1), HALF))>>

\* x = Math.floor(u * (imageData.width - 1)), y likewise
SampleXY(imageData, u, v) ==
    <<MathFloor(Scale(u, imageData.width - 1)),
      MathFloor(Scale(v, imageData.height - 1))>>

\* index = (y * imageData.width + x) * 4
SampleIndex(imageData, u, v) ==
    LET xy == SampleXY(imageData, u, v)
    IN  IF IsNaN(xy[1]) \/ IsNaN(xy[2]) THEN NaN
        ELSE (xy[2] * imageData.width + xy[1]) * 4

sampleDepth(imageData, u, v) == ByteAt(imageData, SampleIndex(imageData, u, v))

sampleColor(imageData, u, v) ==
    LET index == SampleIndex(imageData, u, v)
    IN  <<ByteAt(imageData, index),
          ByteAt(imageData, Add(index, 1)),
          ByteAt(imageData, Add(index, 2))>>

-----------------------------------------------------------------------------
(* State *)

VARIABLES
    \* App state (useState / useRef)
    imageURL, depthURL, loading, error, useMock, depthEstimatorRef,
    renderMode, particleDensity, displacementScale,
    animateParticles, noiseType, animationSpeed, noiseIntensity,
    \* the onFiles invocations in flight, by slot
    inv,
    \* the texture loader's cache: the URLs whose texture is loaded
    texCache,
    \* ParticleSystem: the two useMemo cells, the points ref, the last geometry id
    particleData, samplingData, pointsRef, geometryId,
    \* bookkeeping: how often the mounted ParticleSystem has run the
    \* samplingData memo (one getImageData per image) for its image / depth
    \* pair, and what the last tick of the frame loop did (NoFrame after any
    \* other step)
    decodes, lastFrame,
    \* the buffers the latest frame with animation disabled wrote for the
    \* field on display at the current displacement scale (NULL when none has)
    stillFrame,
    \* the WebGL context of the canvas ("live" or "lost"), and the resources
    \* in use that were created before the context was last restored
    glContext, survivors,
    \* the latest direct call of a function or event handler observed on its
    \* own (NoCall after any other step)
    lastCall,
    \* useDropZone: a drag is over the drop zone
    isOver,
    \* the Logger singleton: its buffer and its listeners in insertion order;
    \* the DebugPanel components (their entries state), what the latest emit
    \* did, and whether clear() has ever been called
    entries, listeners, panels, lastEmit, cleared,
    \* a depth estimator instance, its estimateDepth calls in flight, and the
    \* events of its model loads and inferences
    estimator, calls, estLog,
    \* the inputs and output buffers of one earlier frame, kept for comparison
    refFrame

appVars == <<imageURL, depthURL, loading, error, useMock, depthEstimatorRef>>
paramVars == <<renderMode, particleDensity, displacementScale,
               animateParticles, noiseType, animationSpeed, noiseIntensity>>
viewerVars == <<texCache, particleData, samplingData, pointsRef, geometryId,
                decodes, stillFrame, glContext, survivors>>
logVars == <<entries, listeners, panels, lastEmit, cleared>>
estVars == <<estimator, calls, estLog>>
\* the state of the drop zone, the logger, the estimator instance and the
\* reference frame; the logger's buffer is followed through its own log and
\* clear steps, one per call a handler makes, and the handlers of the App and the viewer leave
\* these variables as they are
sideVars == <<isOver, logVars, estVars, refFrame>>
vars == <<appVars, paramVars, inv, viewerVars, lastFrame, lastCall, sideVars>>

-----------------------------------------------------------------------------
(* Particle Field Builder: the particleData useMemo *)

\* a builder that takes the density as the grid size without clamping it to
\* the image
BuildFieldUnclamped(colorTex, dispTex, density, id) ==
    LET w == colorTex.file.w
        h == colorTex.file.h
        particleCount == density * density
    IN  [id |-> id,
         deps |-> <<colorTex, dispTex, density>>,
         aspect |-> Ratio(w, h),
         sampleW |-> density,
         sampleH |-> density,
         baseUV |-> [i \in 1 .. particleCount |->
                        <<Ratio((i - 1) % density, density - 1),
                          Ratio((i - 1) \div density, density - 1)>>],
         position |-> [i \in 1 .. particleCount |-> <<0, 0, 0>>],
         color |-> [i \in 1 .. particleCount |-> <<UNIT, UNIT, UNIT>>]]

\* the body of the useMemo for textures colorTex, dispTex (their URLs) and
\* a density; id names the new geometry object
BuildField(colorTex, dispTex, density, id) ==
    LET w == colorTex.file.w
        h == colorTex.file.h
        sampleW == MinI(w, density)
        sampleH == MinI(h, density)
        particleCount == sampleW * sampleH
    IN  [id |-> id,
         deps |-> <<colorTex, dispTex, density>>,
         aspect |-> Ratio(w, h),
         sampleW |-> sampleW,
         sampleH |-> sampleH,
         baseUV |-> [i \in 1 .. particleCount |->
                        <<Ratio((i - 1) % sampleW, sampleW - 1),
                          Ratio((i - 1) \div sampleW, sampleH - 1)>>],
         position |-> [i \in 1 .. particleCount |-> <<0, 0, 0>>],
         color |-> [i \in 1 .. particleCount |-> <<UNIT, UNIT, UNIT>>]]

\* a memo whose dependency list lacks particleDensity
MemoFieldByTextures(old, colorTex, dispTex, density, id) ==
    IF old # NULL /\ old.deps[1] = colorTex /\ old.deps[2] = dispTex
    THEN old
    ELSE BuildField(colorTex, dispTex, density, id)

\* useMemo(..., [colorTex, dispTex, particleDensity]): the cell is kept while
\* its dependencies are unchanged
MemoField(old, colorTex, dispTex, density, id) ==
    IF old # NULL /\ old.deps = <<colorTex, dispTex, density>>
    THEN old
    ELSE BuildField(colorTex, dispTex, density, id)

\* the body of the samplingData useMemo: one getImageData per image
BuildSampling(colorTex, dispTex, field) ==
    [deps |-> <<colorTex, dispTex, field.id>>,
     colorImageData |-> DecodeColor(colorTex),
     depthImageData |-> DecodeDepth(dispTex)]

\* useMemo(..., [colorTex, dispTex, particleData])
SamplingStale(old, colorTex, dispTex, field) ==
    old = NULL \/ old.deps # <<colorTex, dispTex, field.id>>

\* a render without the null return: a points object in every case
PointsAlways(field) ==
    [geometry |-> IF field = NULL THEN 0 ELSE field.id]

\* ParticleSystem's return: null without particleData, else <points ref=...>
PointsOf(field) == IF field = NULL THEN NULL ELSE [geometry |-> field.id]

\* ThreeViewer renders ParticleSystem when both URLs are set and the mode is
\* particles; useLoader suspends it until both textures are loaded
Visible(img, dep, mode, cache) ==
    /\ img # NULL
    /\ dep # NULL
    /\ mode = "particles"
    /\ img \in cache
    /\ dep \in cache

\* the URL useLoader is waiting for: the image's texture first, then the
\* depth map's (either render mode loads both)
PendingTexture(img, dep, cache) ==
    IF img = NULL \/ dep = NULL THEN NULL
    ELSE IF img \notin cache THEN img
    ELSE IF dep \notin cache THEN dep
    ELSE NULL

\* the resources of the set old that a re-render keeps in use: the field if
\* its memo cell is kept, the image buffers if theirs is, and the textures
\* still in the loader's cache
StillInUse(old, fieldKept, imageDataKept, cache) ==
    {r \in old : \/ r.kind = "field" /\ fieldKept
                 \/ r.kind = "imageData" /\ imageDataKept
                 \/ r.kind = "texture" /\ r.url \in cache}

\* React's re-render and commit of the viewer for new props: the next values
\* of the viewer variables
Rerender(img, dep, mode, density, cache) ==
    IF ~Visible(img, dep, mode, cache)
    THEN /\ particleData' = NULL
         /\ samplingData' = NULL
         /\ pointsRef' = PointsOf(NULL)
         /\ geometryId' = geometryId
         /\ decodes' = 0
         /\ stillFrame' = NULL
         /\ glContext' = glContext
         /\ survivors' = StillInUse(survivors, FALSE, FALSE, cache)
    ELSE LET field == MemoField(particleData, img, dep, density, 1 - geometryId)
             stale == SamplingStale(samplingData, img, dep, field)
             seen == IF particleData # NULL /\ particleData.deps[1] = img
                        /\ particleData.deps[2] = dep
                     THEN decodes ELSE 0
         IN  /\ particleData' = field
             /\ samplingData' = IF stale THEN BuildSampling(img, dep, field)
                                         ELSE samplingData
             /\ pointsRef' = PointsOf(field)
             /\ geometryId' = field.id
             /\ decodes' = IF stale THEN MinI(seen + 1, MaxDecodes) ELSE seen
             /\ stillFrame' = IF field = particleData
                                  /\ displacementScale' = displacementScale
                               THEN stillFrame ELSE NULL
             /\ glContext' = glContext
             /\ survivors' = StillInUse(survivors,
                                         particleData # NULL
                                            /\ field.id = particleData.id,
                                         ~stale, cache)

\* the cache keeps the textures of the current URLs (object URLs are never
\* issued twice, so a texture of another URL is never asked for again)
PruneCache(cache, img, dep) == cache \cap {img, dep}

-----------------------------------------------------------------------------
(* Frame Updater: the useFrame callback of ParticleSystem *)

\* curl(u * 3, v * 3, time * 0.5, 0.01)
Epsilon == UNIT \div 100

\* offsetX = curl.x * noiseIntensity, offsetY = curl.y * noiseIntensity
CurlOffset(curl, intensity) ==
    <<Mul(curl.x, intensity), Mul(curl.y, intensity)>>

\* the positions of the animation speed slider, and the elapsed clock times
\* at which frames are observed
Speeds == {UNIT \div 2, 2 * UNIT}
Times == {0, 2 * UNIT}

\* time = clock.getElapsedTime() * animationSpeed
FrameTime(elapsed, speed) == Mul(elapsed, speed)

\* every base coordinate a field of these bounds can hold (x / (n - 1), with
\* 0 / 0), and every value of time
BaseCoords ==
    {Ratio(x, d) : x \in 0 .. MaxI(MaxDim, MaxDensity),
                   d \in 0 .. MaxI(MaxDim, MaxDensity)} \cap ({NaN} \cup (0 .. UNIT))
FrameTimes == {FrameTime(e, v) : e \in Times, v \in Speeds}

\* perlin.noise(u * 3, v * 3, time * 0.5) and
\* perlin.noise(u * 3 + 100, v * 3 + 100, time * 0.5), for every particle and
\* time of the model (the generators are pure: each value is computed once)
PerlinAt ==
    [u \in BaseCoords, v \in BaseCoords, time \in FrameTimes |->
        <<Noise(Scale(u, 3), Scale(v, 3), Mul(time, HALF)),
          Noise(Add(Scale(u, 3), 100 * UNIT), Add(Scale(v, 3), 100 * UNIT),
                Mul(time, HALF))>>]

\* curl.curl(u * 3, v * 3, time * 0.5, 0.01), likewise
CurlAt ==
    [u \in BaseCoords, v \in BaseCoords, time \in FrameTimes |->
        Curl(Scale(u, 3), Scale(v, 3), Mul(time, HALF), Epsilon)]

\* offsetX, offsetY of the perlin branch
PerlinOffset(noises, intensity) ==
    <<Mul(noises[1], intensity), Mul(noises[2], intensity)>>

\* the noise offset of a particle with base coordinates (u, v)
NoiseOffset(kind, u, v, time, intensity) ==
    IF kind = "perlin"
    THEN PerlinOffset(PerlinAt[u, v, time], intensity)
    ELSE CurlOffset(CurlAt[u, v, time], intensity)

\* Math.max(0, Math.min(1, a))
Clamp01(a) == MathMax(0, MathMin(UNIT, a))

\* u = clamp(u + offsetX), v = clamp(v + offsetY)
ClampedUV(base, off) ==
    <<Clamp01(Add(base[1], off[1])), Clamp01(Add(base[2], off[2]))>>

\* a sampling coordinate moved by the noise whether or not animation is on
SamplingUVUngated(base, animate, kind, time, intensity) ==
    ClampedUV(base, NoiseOffset(kind, base[1], base[2], time, intensity))

\* the sampling coordinate of a particle: its base coordinate, moved by the
\* noise offset and clamped when animation is on
SamplingUV(base, animate, kind, time, intensity) ==
    IF animate
    THEN ClampedUV(base, NoiseOffset(kind, base[1], base[2], time, intensity))
    ELSE base

\* a loop body that leaves out the flip of the vertical axis
ParticleUpdateUnflipped(uv, field, sampling, scale) ==
    [uv |-> uv,
     pos |-> <<Mul(Sub(uv[1], HALF), field.aspect),
               Sub(uv[2], HALF),
               Mul(sampleDepth(sampling.depthImageData, uv[1], uv[2]), scale)>>,
     col |-> sampleColor(sampling.colorImageData, uv[1], uv[2]),
     depth |-> sampleDepth(sampling.depthImageData, uv[1], uv[2]),
     depthAt |-> SampleXY(sampling.depthImageData, uv[1], uv[2]),
     colorAt |-> SampleXY(sampling.colorImageData, uv[1], uv[2])]

\* one pass of the loop body for a particle at sampling coordinate uv
ParticleUpdate(uv, field, sampling, scale) ==
    [uv |-> uv,
     pos |-> <<Mul(Sub(uv[1], HALF), field.aspect),
               Mul(Sub(uv[2], HALF), 0 - UNIT),
               Mul(sampleDepth(sampling.depthImageData, uv[1], uv[2]), scale)>>,
     col |-> sampleColor(sampling.colorImageData, uv[1], uv[2]),
     depth |-> sampleDepth(sampling.depthImageData, uv[1], uv[2]),
     depthAt |-> SampleXY(sampling.depthImageData, uv[1], uv[2]),
     colorAt |-> SampleXY(sampling.colorImageData, uv[1], uv[2])]

\* a frame write that adds each new position to the one the buffer holds
FrameWriteAccumulating(field, upd) ==
    [field EXCEPT !.position = [i \in DOMAIN upd |->
                                   <<Add(field.position[i][1], upd[i].pos[1]),
                                     Add(field.position[i][2], upd[i].pos[2]),
                                     Add(field.position[i][3], upd[i].pos[3])>>],
                  !.color = [i \in DOMAIN upd |-> upd[i].col]]

\* a frame write that also stores the moved coordinate back into the grid
FrameWriteMovingBase(field, upd) ==
    [field EXCEPT !.position = [i \in DOMAIN upd |-> upd[i].pos],
                  !.color = [i \in DOMAIN upd |-> upd[i].col],
                  !.baseUV = [i \in DOMAIN upd |-> upd[i].uv]]

\* the writes of one frame into the geometry's buffers
FrameWrite(field, upd) ==
    [field EXCEPT !.position = [i \in DOMAIN upd |-> upd[i].pos],
                  !.color = [i \in DOMAIN upd |-> upd[i].col]]

\* if (!pointsRef.current || !particleData || !samplingData) return
FrameGuard == pointsRef # NULL /\ particleData # NULL /\ samplingData # NULL

NoFrame == [kind |-> "none"]
NoCall == [fn |-> "none"]

\* what a frame that returned at the guard did: nothing
SkippedFrame ==
    [kind |-> "skipped", animated |-> FALSE, repeat |-> FALSE,
     particles |-> <<>>, wrote |-> 0, notified |-> {}, log |-> <<>>]

\* a frame that flags the attributes after every particle's writes
FrameLogPerParticle(n) ==
    [k \in 1 .. 3 * n |->
        IF k % 3 = 1 THEN [op |-> "write", particle |-> (k + 2) \div 3]
        ELSE IF k % 3 = 2 THEN [op |-> "needsUpdate", attribute |-> "position"]
        ELSE [op |-> "needsUpdate", attribute |-> "color"]]

\* the order of a frame's effects on the geometry of n particles: the loop
\* writes particle 1 .. n (lines 230-273), then position.needsUpdate = true
\* and color.needsUpdate = true (lines 275-276)
FrameLog(n) ==
    [k \in 1 .. n + 2 |->
        IF k <= n THEN [op |-> "write", particle |-> k]
        ELSE IF k = n + 1 THEN [op |-> "needsUpdate", attribute |-> "position"]
        ELSE [op |-> "needsUpdate", attribute |-> "color"]]

\* one tick of the render loop at elapsed time `elapsed`; lastFrame records
\* what the tick did: each particle's pass of the loop, the number of
\* particles written and the attributes flagged needsUpdate
useFrame(elapsed) ==
    /\ IF FrameGuard
       THEN LET time == FrameTime(elapsed, animationSpeed)
                n == Len(particleData.position)
            IN  /\ lastFrame' =
                     [kind |-> "ran", animated |-> animateParticles,
                      repeat |-> stillFrame # NULL,
                      particles |->
                        [i \in 1 .. n |->
                          ParticleUpdate(
                              SamplingUV(particleData.baseUV[i], animateParticles,
                                         noiseType, time, noiseIntensity),
                              particleData, samplingData, displacementScale)],
                      wrote |-> n,
                      notified |-> {"position", "color"},
                      log |-> FrameLog(n)]
                /\ particleData' = FrameWrite(particleData, lastFrame'.particles)
                /\ stillFrame' = IF animateParticles THEN stillFrame
                                  ELSE [position |-> particleData'.position,
                                        color |-> particleData'.color]
       ELSE /\ particleData' = particleData
            /\ lastFrame' = SkippedFrame
            /\ stillFrame' = stillFrame
    /\ UNCHANGED <<appVars, paramVars, inv, texCache, samplingData, pointsRef,
                   geometryId, decodes, glContext, survivors>>

\* a tick of the render loop, observed as every other tick is
Frame(elapsed) ==
    /\ useFrame(elapsed)
    /\ lastCall' = NoCall
    /\ UNCHANGED sideVars

\* what a frame at elapsed time `elapsed` reads: the base coordinates of the
\* field as the builder laid them out, the two image buffers, the
\* displacement scale and, when animation is on, the noise type, the
\* intensity, the speed and the elapsed time
FrameInputs(elapsed) ==
    [baseUV |-> BuildField(particleData.deps[1], particleData.deps[2],
                           particleData.deps[3], particleData.id).baseUV,
     colorImageData |-> samplingData.colorImageData,
     depthImageData |-> samplingData.depthImageData,
     displacementScale |-> displacementScale,
     animation |-> IF animateParticles
                   THEN <<noiseType, noiseIntensity, animationSpeed, elapsed>>
                   ELSE <<>>]

\* a tick of the render loop whose inputs and output buffers are kept in
\* refFrame, for comparison with the frames after it
ReferenceFrame(elapsed) ==
    /\ refFrame = NULL
    /\ FrameGuard
    /\ useFrame(elapsed)
    /\ refFrame' = [inputs |-> FrameInputs(elapsed),
                    geometry |-> particleData.id,
                    position |-> particleData'.position,
                    color |-> particleData'.color]
    /\ lastCall' = NoCall
    /\ UNCHANGED <<isOver, logVars, estVars>>

-----------------------------------------------------------------------------
(* The batched Frame Updater: the useFrame callback of the ParticleSystem
   that samples the textures and updates a batch of particles per frame *)

\* sampleTexture(texture, u, v): x = Math.floor(u * width),
\* y = Math.floor(v * height), and the pixel drawImage copies from there;
\* nothing is drawn from outside the image, or for a NaN coordinate, and the
\* pixel read back is then (0, 0, 0)
sampleTexture(imageData, u, v) ==
    LET x == MathFloor(Scale(u, imageData.width))
        y == MathFloor(Scale(v, imageData.height))
    IN  IF IsNaN(x) \/ IsNaN(y) THEN <<0, 0, 0>>
        ELSE IF x < 0 \/ x >= imageData.width \/ y < 0 \/ y >= imageData.height
        THEN <<0, 0, 0>>
        ELSE <<ByteAt(imageData, (y * imageData.width + x) * 4),
               ByteAt(imageData, (y * imageData.width + x) * 4 + 1),
               ByteAt(imageData, (y * imageData.width + x) * 4 + 2)>>

\* the particles of one batch: 2000 in the source, for fields of up to
\* 65536 particles; 2 for the fields of this model
BatchSize == 2

\* startIdx = Math.floor((elapsed * 10) % (particleCount / batchSize))
\*            * batchSize when animating, else 0
StartIdx(animate, elapsed, particleCount) ==
    IF animate
    THEN MathFloor(Scale(elapsed, 10) % Ratio(particleCount, BatchSize)) * BatchSize
    ELSE 0

\* endIdx = Math.min(startIdx + (animate ? batchSize : particleCount),
\*                   particleCount)
EndIdx(animate, startIdx, particleCount) ==
    MinI(startIdx + (IF animate THEN BatchSize ELSE particleCount), particleCount)

\* if (startIdx === 0 || !animateParticles) the two needsUpdate flags are set
Notified(animate, startIdx, endIdx) ==
    IF startIdx = 0 \/ ~animate THEN {"position", "color"} ELSE {}

\* one pass of the loop body for a particle at sampling coordinate uv
BatchedUpdate(uv, field, scale) ==
    [uv |-> uv,
     pos |-> <<Mul(Sub(uv[1], HALF), field.aspect),
               Mul(Sub(uv[2], HALF), 0 - UNIT),
               Mul(sampleTexture(DecodeDepth(field.deps[2]), uv[1], uv[2])[1], scale)>>,
     col |-> sampleTexture(DecodeColor(field.deps[1]), uv[1], uv[2])]

\* the writes of one batch: the particles startIdx .. endIdx - 1 (counted
\* from 0), the others keep their values
BatchWrite(field, upd) ==
    [field EXCEPT
        !.position = [i \in DOMAIN field.position |->
                         IF i \in DOMAIN upd THEN upd[i].pos ELSE field.position[i]],
        !.color = [i \in DOMAIN field.color |->
                      IF i \in DOMAIN upd THEN upd[i].col ELSE field.color[i]]]

\* if (!pointsRef.current || !particleData) return
BatchedFrameGuard == pointsRef # NULL /\ particleData # NULL

\* one tick of the render loop of the batched variant
BatchedFrame(elapsed) ==
    /\ IF BatchedFrameGuard
       THEN LET time == FrameTime(elapsed, animationSpeed)
                n == Len(particleData.position)
                startIdx == StartIdx(animateParticles, elapsed, n)
                endIdx == EndIdx(animateParticles, startIdx, n)
            IN  /\ lastFrame' =
                     [kind |-> "batch", animated |-> animateParticles,
                      startIdx |-> startIdx, endIdx |-> endIdx,
                      particleCount |-> n,
                      particles |->
                        [i \in startIdx + 1 .. endIdx |->
                          BatchedUpdate(
                              SamplingUV(particleData.baseUV[i], animateParticles,
                                         noiseType, time, noiseIntensity),
                              particleData, displacementScale)],
                      wrote |-> MaxI(endIdx - startIdx, 0),
                      notified |-> Notified(animateParticles, startIdx, endIdx)]
                /\ particleData' = BatchWrite(particleData, lastFrame'.particles)
       ELSE /\ particleData' = particleData
            /\ lastFrame' = SkippedFrame
    /\ UNCHANGED <<appVars, paramVars, inv, texCache, samplingData, pointsRef,
                   geometryId, decodes, stillFrame, glContext, survivors>>
    /\ lastCall' = NoCall
    /\ UNCHANGED sideVars

-----------------------------------------------------------------------------
(* ThreeViewer: the WebGL context events of the canvas *)

\* the resources the viewer holds: the particle field, the image buffers and
\* the loaded textures
HeldResources ==
    (IF particleData # NULL THEN {[kind |-> "field"]} ELSE {})
        \cup (IF samplingData # NULL THEN {[kind |-> "imageData"]} ELSE {})
        \cup {[kind |-> "texture", url |-> u] : u \in texCache}

\* handleContextLost: console.error(...) ; event.preventDefault()
ContextLost ==
    /\ glContext = "live"
    /\ glContext' = "lost"
    /\ UNCHANGED <<appVars, paramVars, inv, texCache, particleData, samplingData,
                   pointsRef, geometryId, decodes, stillFrame, survivors>>
    /\ lastFrame' = NoFrame
    /\ lastCall' = NoCall
    /\ UNCHANGED sideVars

\* handleContextRestored: console.log(...) ; every resource held stays as it
\* was created before the restoration
ContextRestored ==
    /\ glContext = "lost"
    /\ glContext' = "live"
    /\ survivors' = HeldResources
    /\ UNCHANGED <<appVars, paramVars, inv, texCache, particleData, samplingData,
                   pointsRef, geometryId, decodes, stillFrame>>
    /\ lastFrame' = NoFrame
    /\ lastCall' = NoCall
    /\ UNCHANGED sideVars

-----------------------------------------------------------------------------
(* Direct calls of the noise generators *)

\* seeds a generator is constructed with, and the tables they give
Seeds == {0, 1, Seed, LcgMod - 1}
Tables == [seed \in Seeds |-> PermutationOf(seed)]

\* coordinates noise() is called with: negative, zero, inside a cell, in
\* cell 255 and past it
NoiseInputs == {0 - UNIT \div 4, 0, UNIT + HALF, 255 * UNIT + HALF, 256 * UNIT}

\* the points curl() is called at: on the lattice, inside cells and near
\* their faces
CurlGrid == {0, UNIT \div 4, UNIT + HALF, 3 * UNIT - Epsilon}

\* the results of the calls (the generators are pure: each is computed once)
NoiseResult ==
    [seed \in Seeds, x \in NoiseInputs, y \in NoiseInputs, z \in NoiseInputs |->
        NoiseOn(Tables[seed], x, y, z)]
CurlResult ==
    [x \in CurlGrid, y \in CurlGrid, z \in CurlGrid |-> Curl(x, y, z, Epsilon)]

\* new PerlinNoise(seed).noise(x, y, z): the cell, the table indexes it
\* computes and its result
NoiseCall(seed, x, y, z) ==
    /\ lastCall' =
          [fn |-> "noise", seed |-> seed, args |-> <<x, y, z>>,
           cell |-> <<And255(MathFloor(x)), And255(MathFloor(y)),
                      And255(MathFloor(z))>>,
           indexes |-> NoiseIndexes(Tables[seed], And255(MathFloor(x)),
                                    And255(MathFloor(y)), And255(MathFloor(z))),
           result |-> NoiseResult[seed, x, y, z]]
    /\ UNCHANGED <<appVars, paramVars, inv, viewerVars, lastFrame, sideVars>>

\* noiseGenerators.curl.curl(x, y, z, 0.01)
CurlCall(x, y, z) ==
    /\ lastCall' = [fn |-> "curl", args |-> <<x, y, z>>,
                    result |-> CurlResult[x, y, z]]
    /\ UNCHANGED <<appVars, paramVars, inv, viewerVars, lastFrame, sideVars>>

-----------------------------------------------------------------------------
(* Toolbar: the parameter handlers (every control is disabled while loading) *)

\* a slider whose max attribute is one step too high
DensitiesPastCeiling == 2 .. MaxDensity + 1

\* the density slider: min 64, max 512, step 64, as 2 .. MaxDensity
Densities == 2 .. MaxDensity
Intensities == {UNIT \div 10, UNIT \div 2}
DisplacementScales == {UNIT \div 20, UNIT}

\* the viewer re-rendered with the props of the next state
RerenderNext ==
    Rerender(imageURL', depthURL', renderMode', particleDensity', texCache')

onRenderModeChange(mode) ==
    /\ ~loading
    /\ mode # renderMode
    /\ renderMode' = mode
    /\ UNCHANGED <<appVars, inv, texCache, particleDensity, displacementScale,
                   animateParticles, noiseType, animationSpeed, noiseIntensity>>
    /\ RerenderNext
    /\ lastFrame' = NoFrame
    /\ lastCall' = NoCall
    /\ UNCHANGED sideVars

onParticleDensityChange(d) ==
    /\ ~loading
    /\ renderMode = "particles"
    /\ d # particleDensity
    /\ particleDensity' = d
    /\ UNCHANGED <<appVars, inv, texCache, renderMode, displacementScale,
                   animateParticles, noiseType, animationSpeed, noiseIntensity>>
    /\ RerenderNext
    /\ lastFrame' = NoFrame
    /\ lastCall' = NoCall
    /\ UNCHANGED sideVars

onScaleChange(v) ==
    /\ ~loading
    /\ v # displacementScale
    /\ displacementScale' = v
    /\ UNCHANGED <<appVars, inv, texCache, renderMode, particleDensity,
                   animateParticles, noiseType, animationSpeed, noiseIntensity>>
    /\ RerenderNext
    /\ lastFrame' = NoFrame
    /\ lastCall' = NoCall
    /\ UNCHANGED sideVars

onToggleAnimation(b) ==
    /\ ~loading
    /\ renderMode = "particles"
    /\ b # animateParticles
    /\ animateParticles' = b
    /\ UNCHANGED <<appVars, inv, texCache, renderMode, particleDensity,
                   displacementScale, noiseType, animationSpeed, noiseIntensity>>
    /\ RerenderNext
    /\ lastFrame' = NoFrame
    /\ lastCall' = NoCall
    /\ UNCHANGED sideVars

onNoiseTypeChange(k) ==
    /\ ~loading
    /\ renderMode = "particles"
    /\ animateParticles
    /\ k # noiseType
    /\ noiseType' = k
    /\ UNCHANGED <<appVars, inv, texCache, renderMode, particleDensity,
                   displacementScale, animateParticles, animationSpeed,
                   noiseIntensity>>
    /\ RerenderNext
    /\ lastFrame' = NoFrame
    /\ lastCall' = NoCall
    /\ UNCHANGED sideVars

onAnimationSpeedChange(v) ==
    /\ ~loading
    /\ renderMode = "particles"
    /\ animateParticles
    /\ v # animationSpeed
    /\ animationSpeed' = v
    /\ UNCHANGED <<appVars, inv, texCache, renderMode, particleDensity,
                   displacementScale, animateParticles, noiseType, noiseIntensity>>
    /\ RerenderNext
    /\ lastFrame' = NoFrame
    /\ lastCall' = NoCall
    /\ UNCHANGED sideVars

onNoiseIntensityChange(v) ==
    /\ ~loading
    /\ renderMode = "particles"
    /\ animateParticles
    /\ v # noiseIntensity
    /\ noiseIntensity' = v
    /\ UNCHANGED <<appVars, inv, texCache, renderMode, particleDensity,
                   displacementScale, animateParticles, noiseType, animationSpeed>>
    /\ RerenderNext
    /\ lastFrame' = NoFrame
    /\ lastCall' = NoCall
    /\ UNCHANGED sideVars

onToggleMock(b) ==
    /\ ~loading
    /\ b # useMock
    /\ useMock' = b
    /\ UNCHANGED <<imageURL, depthURL, loading, error, depthEstimatorRef,
                   paramVars, inv, texCache>>
    /\ RerenderNext
    /\ lastFrame' = NoFrame
    /\ lastCall' = NoCall
    /\ UNCHANGED sideVars

\* the texture useLoader is waiting for finishes loading
TextureLoaded ==
    /\ PendingTexture(imageURL, depthURL, texCache) # NULL
    /\ texCache' = texCache \cup {PendingTexture(imageURL, depthURL, texCache)}
    /\ UNCHANGED <<appVars, paramVars, inv>>
    /\ RerenderNext
    /\ lastFrame' = NoFrame
    /\ lastCall' = NoCall
    /\ UNCHANGED sideVars

-----------------------------------------------------------------------------
(* App.onFiles: one action per segment between two awaits *)

IdleInv == [pc |-> "idle", url |-> NULL, canvas |-> NULL]

\* URL.createObjectURL(file) of the invocation in slot i
ObjectURL(i, f) == [slot |-> i, file |-> f]

\* the URL of a depth canvas's picture (an object URL of its PNG blob, or its
\* data URL): the image it was computed for, and the picture
DepthURLOf(url, canvas) ==
    [of |-> url, kind |-> canvas.kind, w |-> canvas.w, h |-> canvas.h]

\* generateMockDepth's canvas: the image's size
MockCanvas(f) == [kind |-> "mock", w |-> f.w, h |-> f.h, offscreen |-> FALSE]

\* an estimator's canvas: the image's size, or the network's own output
\* size (native); an OffscreenCanvas or an HTMLCanvasElement
ModelCanvas(f, native, offscreen) ==
    [kind |-> "model",
     w |-> IF native THEN 2 ELSE f.w,
     h |-> IF native THEN 2 ELSE f.h,
     offscreen |-> offscreen]

\* setDepthURL(u): the state change and the viewer's re-render
SetDepthURL(u) ==
    /\ depthURL' = u
    /\ texCache' = PruneCache(texCache, imageURL, u)
    /\ Rerender(imageURL, u, renderMode, particleDensity, texCache')

\* finally { setLoading(false) } and the end of the invocation
Finally(i) ==
    /\ loading' = FALSE
    /\ inv' = [inv EXCEPT ![i] = IdleInv]

\* lines 33-47 / 49-54 / 70-71: the synchronous start, up to the first await
onFiles(i, f) ==
    /\ inv[i].pc = "idle"
    /\ imageURL' = ObjectURL(i, f)
    /\ depthURL' = NULL
    /\ error' = NULL
    /\ loading' = TRUE
    /\ inv' = [inv EXCEPT ![i] =
                 [pc |-> IF useMock THEN "mockDepth"
                         ELSE IF depthEstimatorRef = NULL THEN "importWorking"
                         ELSE "estimate",
                  url |-> ObjectURL(i, f), canvas |-> NULL]]
    /\ texCache' = {}
    /\ UNCHANGED <<useMock, depthEstimatorRef, paramVars>>
    /\ Rerender(imageURL', NULL, renderMode, particleDensity, texCache')
    /\ lastFrame' = NoFrame

\* an image selection in slot i, whichever control it came through
OnFilesStart(i, f) ==
    /\ onFiles(i, f)
    /\ lastCall' = NoCall
    /\ UNCHANGED sideVars

\* catch (e): setError(`Depth estimation failed: ${msg}. ...`), then
\* await generateMockDepth(url); msg is the thrown error's text
Catch(i, msg) ==
    /\ error' = [message |-> "Depth estimation failed"]
    /\ inv' = [inv EXCEPT ![i].pc = "fallbackMock"]
    /\ UNCHANGED <<imageURL, depthURL, loading, useMock, depthEstimatorRef,
                   paramVars, viewerVars>>
    /\ lastFrame' = NoFrame
    /\ lastCall' = NoCall
    /\ UNCHANGED sideVars

\* a segment that only moves the invocation on
Continue(i, pc, canvas) ==
    /\ inv' = [inv EXCEPT ![i].pc = pc, ![i].canvas = canvas]
    /\ UNCHANGED <<imageURL, depthURL, loading, error, useMock, paramVars,
                   viewerVars>>
    /\ lastFrame' = NoFrame
    /\ lastCall' = NoCall
    /\ UNCHANGED sideVars

\* a segment that commits a depth URL and ends the invocation
Commit(i, u) ==
    /\ UNCHANGED <<imageURL, error, depthEstimatorRef, paramVars>>
    /\ SetDepthURL(u)
    /\ Finally(i)
    /\ lastFrame' = NoFrame
    /\ lastCall' = NoCall
    /\ UNCHANGED sideVars

\* await generateMockDepth(url) resolves (line 47), toBlob is started
MockDepthResolved(i) ==
    /\ inv[i].pc = "mockDepth"
    /\ inv[i].url.file.ok
    /\ Continue(i, "toBlob", MockCanvas(inv[i].url.file))
    /\ UNCHANGED depthEstimatorRef

\* await generateMockDepth(url) rejects: the image does not load
MockDepthRejected(i) ==
    /\ inv[i].pc = "mockDepth"
    /\ ~inv[i].url.file.ok
    /\ Catch(i, "mock depth failed")

\* await import('./depth/WorkingDepthEstimator') resolves (lines 54-56, 70-71)
ImportWorkingResolved(i) ==
    /\ inv[i].pc = "importWorking"
    /\ depthEstimatorRef' = [estimator |-> "WorkingDepthEstimator"]
    /\ Continue(i, "estimate", NULL)

\* the import rejects: the SimpleDepthEstimator import is tried (lines 57-61)
ImportWorkingRejected(i) ==
    /\ inv[i].pc = "importWorking"
    /\ Continue(i, "importSimple", NULL)
    /\ UNCHANGED depthEstimatorRef

\* await import('./depth/SimpleDepthEstimator') resolves (lines 61-63, 70-71)
ImportSimpleResolved(i) ==
    /\ inv[i].pc = "importSimple"
    /\ depthEstimatorRef' = [estimator |-> "SimpleDepthEstimator"]
    /\ Continue(i, "estimate", NULL)

\* both imports failed: throw new Error('No depth estimator available')
ImportSimpleRejected(i) ==
    /\ inv[i].pc = "importSimple"
    /\ Catch(i, "No depth estimator available")

\* await estimateDepth(url) resolves (lines 71-93): blob creation is started
EstimateResolved(i, native, offscreen) ==
    /\ inv[i].pc = "estimate"
    /\ inv[i].url.file.ok
    /\ Continue(i, IF offscreen THEN "convertToBlob" ELSE "toBlob",
                ModelCanvas(inv[i].url.file, native, offscreen))
    /\ UNCHANGED depthEstimatorRef

\* await estimateDepth(url) rejects: model load or inference failed
EstimateRejected(i) ==
    /\ inv[i].pc = "estimate"
    /\ Catch(i, "estimateDepth failed")

\* the blob arrives (lines 119-122), then finally
BlobCreated(i) ==
    /\ inv[i].pc \in {"toBlob", "convertToBlob"}
    /\ Commit(i, DepthURLOf(inv[i].url, inv[i].canvas))
    /\ UNCHANGED useMock

\* toBlob calls back with null: the toDataURL fallback (lines 107-113)
BlobNullDataURL(i) ==
    /\ inv[i].pc = "toBlob"
    /\ Commit(i, DepthURLOf(inv[i].url, inv[i].canvas))
    /\ UNCHANGED useMock

\* toBlob calls back with null and toDataURL throws (lines 114-117)
BlobNullThrows(i) ==
    /\ inv[i].pc = "toBlob"
    /\ Catch(i, "Failed to create depth PNG")

\* the 5 second timer rejects before toBlob calls back (lines 94-97)
BlobTimeout(i) ==
    /\ inv[i].pc = "toBlob"
    /\ Catch(i, "toBlob timeout")

\* await depthCanvas.convertToBlob(...) rejects
ConvertToBlobRejected(i) ==
    /\ inv[i].pc = "convertToBlob"
    /\ Catch(i, "convertToBlob failed")

\* in the catch block, await generateMockDepth(url) resolves (lines 128-129)
FallbackMockResolved(i) ==
    /\ inv[i].pc = "fallbackMock"
    /\ inv[i].url.file.ok
    /\ Continue(i, "fallbackBlob", MockCanvas(inv[i].url.file))
    /\ UNCHANGED depthEstimatorRef

\* it rejects: catch {} swallows the error, then finally
FallbackMockRejected(i) ==
    /\ inv[i].pc = "fallbackMock"
    /\ ~inv[i].url.file.ok
    /\ Finally(i)
    /\ UNCHANGED <<imageURL, depthURL, error, useMock, depthEstimatorRef,
                   paramVars, viewerVars>>
    /\ lastFrame' = NoFrame
    /\ lastCall' = NoCall
    /\ UNCHANGED sideVars

\* the fallback's blob arrives: setDepthURL, setUseMock(true) (lines 130-135)
FallbackBlobCreated(i) ==
    /\ inv[i].pc = "fallbackBlob"
    /\ Commit(i, DepthURLOf(inv[i].url, inv[i].canvas))
    /\ useMock' = TRUE

\* the fallback's toBlob calls back with null: nothing is set, then finally
FallbackBlobNull(i) ==
    /\ inv[i].pc = "fallbackBlob"
    /\ Finally(i)
    /\ UNCHANGED <<imageURL, depthURL, error, useMock, depthEstimatorRef,
                   paramVars, viewerVars>>
    /\ lastFrame' = NoFrame
    /\ lastCall' = NoCall
    /\ UNCHANGED sideVars

\* the steps of invocation i on which nothing fails
OnFilesSucceeds(i) ==
    \/ MockDepthResolved(i)
    \/ ImportWorkingResolved(i)
    \/ \E native \in BOOLEAN, offscreen \in BOOLEAN :
          EstimateResolved(i, native, offscreen)
    \/ BlobCreated(i)

\* the steps of invocation i on which an await fails, and what follows them
OnFilesFails(i) ==
    \/ MockDepthRejected(i)
    \/ ImportWorkingRejected(i)
    \/ ImportSimpleResolved(i)
    \/ ImportSimpleRejected(i)
    \/ EstimateRejected(i)
    \/ BlobNullDataURL(i)
    \/ BlobNullThrows(i)
    \/ BlobTimeout(i)
    \/ ConvertToBlobRejected(i)
    \/ FallbackMockResolved(i)
    \/ FallbackMockRejected(i)
    \/ FallbackBlobCreated(i)
    \/ FallbackBlobNull(i)

-----------------------------------------------------------------------------
(* hooks/useDropZone and the file input of App *)

\* MIME types, as the sequences of their characters
ImageJpeg == <<"i", "m", "a", "g", "e", "/", "j", "p", "e", "g">>
ImagePng == <<"i", "m", "a", "g", "e", "/", "p", "n", "g">>
ImageWebp == <<"i", "m", "a", "g", "e", "/", "w", "e", "b", "p">>
ImageGif == <<"i", "m", "a", "g", "e", "/", "g", "i", "f">>
ImageJpeg2000 == <<"i", "m", "a", "g", "e", "/", "j", "p", "e", "g", "2", "0", "0", "0">>
TextPlain == <<"t", "e", "x", "t", "/", "p", "l", "a", "i", "n">>

\* the pattern occurs in the text at some position
Occurs(pattern, text) ==
    \E k \in 1 .. Len(text) - Len(pattern) + 1 :
        SubSeq(text, k, k + Len(pattern) - 1) = pattern

\* /image\/(jpeg|png|webp)/i.test(type): the pattern is not anchored (File
\* types are lower case already)
TypeTest(type) ==
    \/ Occurs(ImageJpeg, type)
    \/ Occurs(ImagePng, type)
    \/ Occurs(ImageWebp, type)

\* the files a user drops or picks: images of the three formats, a GIF and a
\* JPEG 2000 picture (which a browser decodes or not), a text file, and a
\* file of unknown type
UserFiles ==
    {[w |-> 2, h |-> 2, ok |-> TRUE, type |-> ImagePng],
     [w |-> 1, h |-> 2, ok |-> TRUE, type |-> ImageWebp],
     [w |-> 2, h |-> 1, ok |-> FALSE, type |-> ImageJpeg],
     [w |-> 2, h |-> 1, ok |-> TRUE, type |-> ImageGif],
     [w |-> 1, h |-> 1, ok |-> FALSE, type |-> ImageJpeg2000],
     [w |-> 0, h |-> 0, ok |-> FALSE, type |-> TextPlain],
     [w |-> 0, h |-> 0, ok |-> FALSE, type |-> <<>>]}

\* the file lists of a drop or of the file input: up to MaxFiles files
MaxFiles == 2
FileLists == UNION {[1 .. n -> UserFiles] : n \in 0 .. MaxFiles}

\* onFiles(files) called with a list: const file = files[0];
\* if (!file) return; then the selection of that file
onFilesCalled(i, files) ==
    IF files = <<>>
    THEN /\ UNCHANGED <<appVars, paramVars, inv, viewerVars>>
         /\ lastFrame' = NoFrame
    ELSE onFiles(i, files[1])

\* a step of the drop zone
DropZoneStep == UNCHANGED <<logVars, estVars, refFrame>>

\* onDragOver: e.preventDefault() ; setIsOver(true)
onDragOver ==
    /\ isOver' = TRUE
    /\ UNCHANGED <<appVars, paramVars, inv, viewerVars>>
    /\ lastFrame' = NoFrame
    /\ lastCall' = NoCall
    /\ DropZoneStep

\* onDragLeave: setIsOver(false)
onDragLeave ==
    /\ isOver' = FALSE
    /\ UNCHANGED <<appVars, paramVars, inv, viewerVars>>
    /\ lastFrame' = NoFrame
    /\ lastCall' = NoCall
    /\ DropZoneStep

\* onDrop: setIsOver(false) ; accepted = files.filter(...) ;
\* if (accepted.length) onFiles(accepted); lastCall records the files of the
\* event and the lists onFiles was called with
onDrop(i, files) ==
    LET accepted == SelectSeq(files, LAMBDA f : TypeTest(f.type))
    IN  /\ isOver' = FALSE
        /\ IF Len(accepted) # 0
           THEN onFilesCalled(i, accepted)
           ELSE /\ UNCHANGED <<appVars, paramVars, inv, viewerVars>>
                /\ lastFrame' = NoFrame
        /\ lastCall' = [fn |-> "onDrop", files |-> files,
                        passed |-> IF Len(accepted) # 0 THEN <<accepted>> ELSE <<>>]
        /\ DropZoneStep

\* the file input (accept="image/jpeg,image/png,image/webp", a filter of
\* the picker which the user can switch off): onChange calls
\* onFiles(Array.from(e.target.files))
onChange(i, files) ==
    /\ onFilesCalled(i, files)
    /\ lastCall' = [fn |-> "onChange", files |-> files, passed |-> <<files>>]
    /\ UNCHANGED isOver
    /\ DropZoneStep

-----------------------------------------------------------------------------
(* The depth providers' arithmetic, called directly *)

\* getGray(data, x, y, width): (data[idx] + data[idx + 1] + data[idx + 2]) / 3
getGray(data, x, y, width) ==
    LET idx == (y * width + x) * 4
    IN  Ratio(data[idx + 1] + data[idx + 2] + data[idx + 3], 3)

\* the eight neighbours of a pixel, as computeEdgeDepth lists them
NeighborOffsets ==
    <<<<-1, -1>>, <<0, -1>>, <<1, -1>>, <<-1, 0>>, <<1, 0>>, <<-1, 1>>,
      <<0, 1>>, <<1, 1>>>>

\* edgeStrength: the mean of |gray - neighbor| over the neighbours
RECURSIVE EdgeSum(_, _, _, _, _)
EdgeSum(data, x, y, width, k) ==
    IF k = 0 THEN 0
    ELSE EdgeSum(data, x, y, width, k - 1)
           + Abs(getGray(data, x, y, width)
                   - getGray(data, x + NeighborOffsets[k][1],
                             y + NeighborOffsets[k][2], width))

\* Math.min(1, 1 - edgeStrength / 128)
EdgeDepth(edgeStrength) ==
    MathMin(UNIT, Sub(UNIT, RoundDiv(edgeStrength, 128)))

\* SimpleDepthEstimator.computeEdgeDepth(imageData): a Float32Array of
\* width * height zeros, whose interior pixels (1 <= x < width - 1,
\* 1 <= y < height - 1) get their edge depth
computeEdgeDepth(imageData) ==
    LET width == imageData.width
        height == imageData.height
    IN  [i \in 1 .. width * height |->
            LET x == (i - 1) % width
                y == (i - 1) \div width
            IN  IF x >= 1 /\ x < width - 1 /\ y >= 1 /\ y < height - 1
                THEN EdgeDepth(RoundDiv(EdgeSum(imageData.data, x, y, width,
                                                Len(NeighborOffsets)),
                                        Len(NeighborOffsets)))
                ELSE 0]

\* const val = Math.floor(depthData[i] * 255), the value stored into the
\* canvas's pixel array
GrayLevel(n) == MathFloor(Scale(n, 255))

\* the smaller and larger of the values of a sequence (Infinity and
\* -Infinity for none, out of reach of the model's numbers)
RECURSIVE SeqMin(_, _)
SeqMin(data, k) == IF k = 0 THEN 2 ^ 29 ELSE MinI(data[k], SeqMin(data, k - 1))
RECURSIVE SeqMax(_, _)
SeqMax(data, k) == IF k = 0 THEN 0 - 2 ^ 29 ELSE MaxI(data[k], SeqMax(data, k - 1))

\* DepthEstimator.estimateDepth, lines 126-141: range = max - min || 1,
\* n = (data[i] - min) / range
NormalizeDepth(data) ==
    LET min == SeqMin(data, Len(data))
        max == SeqMax(data, Len(data))
        range == IF max - min = 0 THEN UNIT ELSE max - min
    IN  [i \in DOMAIN data |-> Div(data[i] - min, range)]

\* the largest integer whose square is at most n, between lo and hi
RECURSIVE SqrtSearch(_, _, _)
SqrtSearch(n, lo, hi) ==
    IF lo >= hi THEN lo
    ELSE LET mid == (lo + hi + 1) \div 2
         IN  IF mid * mid <= n THEN SqrtSearch(n, mid, hi)
             ELSE SqrtSearch(n, lo, mid - 1)

\* Math.sqrt(a), rounded down to the fixed-point grid
MathSqrt(a) == SqrtSearch(a * UNIT, 0, 46340)

\* generateMockDepth: n = 1 - Math.min(1, r / maxR) at pixel (x, y) of a
\* w x h image
MockDepthValue(w, h, x, y) ==
    LET cx == Ratio(w, 2)
        cy == Ratio(h, 2)
        maxR == MathSqrt(Mul(cx, cx) + Mul(cy, cy))
        dx == x * UNIT - cx
        dy == y * UNIT - cy
        r == MathSqrt(Mul(dx, dx) + Mul(dy, dy))
    IN  Sub(UNIT, MathMin(UNIT, Div(r, maxR)))

\* the pictures the edge estimator is called on: the 3 x 3 pictures of black
\* and white pixels, by the set of their white pixels, among them a white
\* pixel with black neighbours
BlackAndWhite(white) ==
    [width |-> 3, height |-> 3,
     data |-> RgbaData(3, 3, [x \in 0 .. 2, y \in 0 .. 2 |->
                                 IF (y * 3 + x) \in white THEN <<255, 255, 255>>
                                 ELSE <<0, 0, 0>>])]
EdgeWhites == SUBSET {0, 2, 4, 5, 7}

\* the depth tensors the normalization is called on: up to MaxTensor values,
\* negative, zero, fractional and large, constant tensors among them
MaxTensor == 3
TensorValues == {0 - UNIT, 0, HALF, 3 * UNIT}
Tensors == UNION {[1 .. n -> TensorValues] : n \in 1 .. MaxTensor}

\* computeEdgeDepth on a picture: its depth map and the gray levels
\* estimateDepth writes
EdgeDepthCall(imageData) ==
    /\ lastCall' =
          [fn |-> "computeEdgeDepth", of |-> imageData,
           depthMap |-> computeEdgeDepth(imageData)]
    /\ UNCHANGED <<appVars, paramVars, inv, viewerVars, lastFrame, sideVars>>

\* the normalization of a depth tensor
NormalizeCall(data) ==
    /\ lastCall' = [fn |-> "normalize", of |-> data,
                    depthMap |-> NormalizeDepth(data)]
    /\ UNCHANGED <<appVars, paramVars, inv, viewerVars, lastFrame, sideVars>>

\* the radial mock depth of a w x h image, row by row
MockDepthCall(w, h) ==
    /\ lastCall' = [fn |-> "generateMockDepth", of |-> <<w, h>>,
                    depthMap |-> [i \in 1 .. w * h |->
                                     MockDepthValue(w, h, (i - 1) % w,
                                                    (i - 1) \div w)]]
    /\ UNCHANGED <<appVars, paramVars, inv, viewerVars, lastFrame, sideVars>>

-----------------------------------------------------------------------------
(* utils/logger: the Logger singleton, and the DebugPanel subscribed to it *)

\* the log buffer holds at most MaxLog entries, and MaxPanels panels mount
MaxLog == 3
MaxPanels == 2

Panels == 1 .. MaxPanels
Levels == {"debug", "info", "warn", "error"}
Messages == {"file:selected"}

NoEmit == [via |-> "none"]

\* the members of a sequence
Members(seq) == {seq[k] : k \in DOMAIN seq}

\* this.listeners.add(listener): a Set keeps insertion order and no duplicate
subscribe(ls, listener) ==
    IF listener \in Members(ls) THEN ls ELSE Append(ls, listener)

\* the function subscribe returns: this.listeners.delete(listener)
unsubscribe(ls, listener) == SelectSeq(ls, LAMBDA l : l # listener)

\* a push that stores the entry twice
PushTwice(buffer, entry) == Append(Append(buffer, entry), entry)

\* this.entries.push(entry)
Push(buffer, entry) == Append(buffer, entry)

\* the panel's listener: () => setEntries([...logger.getEntries()])
Listener(panel, buffer) == [panel EXCEPT !.entries = buffer]

\* emit(entry) on the buffer `buffer`: push, then listeners.forEach(l =>
\* l(entry)) in insertion order; lastEmit records the listeners called, in
\* order, and the entries each of them read
emit(buffer, entry, via) ==
    /\ entries' = Push(buffer, entry)
    /\ panels' = [p \in Panels |->
                    IF p \in Members(listeners)
                    THEN Listener(panels[p], entries') ELSE panels[p]]
    /\ lastEmit' = [via |-> via, entry |-> entry, notified |-> listeners,
                    saw |-> [k \in DOMAIN listeners |->
                                panels'[listeners[k]].entries]]
    /\ UNCHANGED listeners

\* logger.debug / info / warn / error (message): log(level, message) builds
\* the entry, mirrors it to the console and emits it
Log(level, message) ==
    /\ Len(entries) < MaxLog
    /\ emit(entries, [level |-> level, message |-> message], "log")
    /\ UNCHANGED cleared
    /\ UNCHANGED <<appVars, paramVars, inv, viewerVars, isOver, estVars, refFrame>>
    /\ lastFrame' = NoFrame
    /\ lastCall' = NoCall

\* the entry clear() emits
ClearedEntry == [level |-> "info", message |-> "Logs cleared"]

\* a clear that only empties the buffer
ClearSilently(p) ==
    /\ panels[p] # NULL
    /\ panels[p].open
    /\ entries' = <<>>
    /\ lastEmit' = [via |-> "clear", entry |-> ClearedEntry, notified |-> <<>>,
                    saw |-> <<>>]
    /\ cleared' = TRUE
    /\ UNCHANGED <<listeners, panels>>
    /\ UNCHANGED <<appVars, paramVars, inv, viewerVars, isOver, estVars, refFrame>>
    /\ lastFrame' = NoFrame
    /\ lastCall' = NoCall

\* the Clear button of an open panel: onClear = () => logger.clear(), which
\* is this.entries = [] ; this.emit({ level: 'info', message: 'Logs cleared' })
Clear(p) ==
    /\ panels[p] # NULL
    /\ panels[p].open
    /\ emit(<<>>, ClearedEntry, "clear")
    /\ cleared' = TRUE
    /\ UNCHANGED <<appVars, paramVars, inv, viewerVars, isOver, estVars, refFrame>>
    /\ lastFrame' = NoFrame
    /\ lastCall' = NoCall

\* a step of the panels that emits nothing
PanelStep ==
    /\ lastEmit' = NoEmit
    /\ UNCHANGED <<entries, cleared>>
    /\ UNCHANGED <<appVars, paramVars, inv, viewerVars, isOver, estVars, refFrame>>
    /\ lastFrame' = NoFrame
    /\ lastCall' = NoCall

\* a DebugPanel mounts: useState(logger.getEntries()), then its effect
\* subscribes the listener (lines 5-8)
MountPanel(p, open) ==
    /\ panels[p] = NULL
    /\ panels' = [panels EXCEPT ![p] = [entries |-> entries, open |-> open]]
    /\ listeners' = subscribe(listeners, p)
    /\ PanelStep

\* it unmounts: the effect's cleanup calls unsub() (line 9)
UnmountPanel(p) ==
    /\ panels[p] # NULL
    /\ panels' = [panels EXCEPT ![p] = NULL]
    /\ listeners' = unsubscribe(listeners, p)
    /\ PanelStep

\* the DEBUG_PANEL checkbox: setShowDebug(e.target.checked), the panel's
\* open prop
onShowDebugChange(p, checked) ==
    /\ panels[p] # NULL
    /\ panels' = [panels EXCEPT ![p].open = checked]
    /\ UNCHANGED listeners
    /\ PanelStep

\* the panel renders <div>No logs</div>
ShowsNoLogs(p) ==
    panels[p] # NULL /\ panels[p].open /\ Len(panels[p].entries) = 0

-----------------------------------------------------------------------------
(* depth: the estimator classes *)

\* estimateDepth is called by MaxCallers callers, and the calls start at most
\* MaxLoads model loads in all
MaxCallers == 2
MaxLoads == 2
Callers == 1 .. MaxCallers
IdleCall == [pc |-> "idle"]

\* an order of attempts that begins with the largest model
ModelsLargestFirst ==
    <<"Xenova/dpt-large", "Xenova/dpt-hybrid", "Xenova/midas-v2-small">>

\* createPipelineWithFallbacks: const models = [...]
ModelsToTry ==
    <<"Xenova/midas-v2-small", "Xenova/dpt-hybrid", "Xenova/dpt-large">>

\* the model WorkingDepthEstimator.loadPipeline and the one
\* DepthAnythingEstimator.loadModel load
WorkingModel == "onnx-community/depth-anything-v2-small"
AnythingModel == "onnx-community/depth-anything-small"

\* an event of the estimator: a model load started by a call, a load that
\* succeeded, a load that failed
Event(op, model, by) == [op |-> op, model |-> model, by |-> by]

LoadsStarted == Cardinality({k \in DOMAIN estLog : estLog[k].op = "load"})

\* the instance holds what an inference runs on (this.pipeline, this.session,
\* or the pipeline of a fulfilled pipePromise)
Ready(e) ==
    CASE e.class = "WorkingDepthEstimator" -> e.pipeline # NULL
      [] e.class = "DepthAnythingEstimator" -> e.session # NULL
      [] e.class = "DepthEstimator" ->
            e.pipePromise # NULL /\ e.pipePromise.state = "fulfilled"

\* a call's position once its inference has been started
Inferring(e) == [pc |-> "inference", ready |-> Ready(e)]

\* a step of the estimator
EstimatorStep ==
    /\ UNCHANGED <<appVars, paramVars, inv, viewerVars, isOver, logVars, refFrame>>
    /\ lastFrame' = NoFrame
    /\ lastCall' = NoCall

\* new WorkingDepthEstimator() / DepthAnythingEstimator() / DepthEstimator():
\* the field initializers
NewEstimator(class) ==
    /\ estimator = NULL
    /\ estimator' =
          CASE class = "WorkingDepthEstimator" ->
                  [class |-> class, pipeline |-> NULL]
            [] class = "DepthAnythingEstimator" ->
                  [class |-> class, model |-> NULL, session |-> NULL]
            [] class = "DepthEstimator" ->
                  [class |-> class, pipePromise |-> NULL]
    /\ UNCHANGED <<calls, estLog>>
    /\ EstimatorStep

\* if (!this.pipeline) / if (!this.model) / if (!this.pipePromise)
NeedsLoad(e) ==
    CASE e.class = "WorkingDepthEstimator" -> e.pipeline = NULL
      [] e.class = "DepthAnythingEstimator" -> e.model = NULL
      [] e.class = "DepthEstimator" -> e.pipePromise = NULL

\* estimateDepth(imageURL) by caller c, up to its first await: the load is
\* started if the instance has none (loadPipeline, loadModel, or getPipeline
\* with createPipelineWithFallbacks, whose first attempt starts at once)
estimateDepth(c) ==
    /\ estimator # NULL
    /\ calls[c].pc = "idle"
    /\ NeedsLoad(estimator) => LoadsStarted < MaxLoads
    /\ CASE estimator.class = "WorkingDepthEstimator" ->
              /\ calls' = [calls EXCEPT ![c].pc =
                             IF NeedsLoad(estimator) THEN "loadPipeline" ELSE "fromURL"]
              /\ estLog' = estLog \o
                             (IF NeedsLoad(estimator)
                              THEN <<Event("load", WorkingModel, c)>> ELSE <<>>)
              /\ UNCHANGED estimator
         [] estimator.class = "DepthAnythingEstimator" ->
              /\ calls' = [calls EXCEPT ![c].pc =
                             IF NeedsLoad(estimator) THEN "loadModel" ELSE "loadImage"]
              /\ estLog' = estLog \o
                             (IF NeedsLoad(estimator)
                              THEN <<Event("load", AnythingModel, c)>> ELSE <<>>)
              /\ UNCHANGED estimator
         [] estimator.class = "DepthEstimator" ->
              /\ calls' = [calls EXCEPT ![c].pc = "getPipeline"]
              /\ estLog' = estLog \o
                             (IF NeedsLoad(estimator)
                              THEN <<Event("load", ModelsToTry[1], c)>> ELSE <<>>)
              /\ estimator' =
                    IF NeedsLoad(estimator)
                    THEN [estimator EXCEPT !.pipePromise =
                             [state |-> "pending", trying |-> 1, by |-> c]]
                    ELSE estimator
    /\ EstimatorStep

\* the load a call awaits succeeds: loadPipeline sets this.pipeline;
\* loadModel sets this.session (and never this.model)
LoadSucceeds(c) ==
    /\ calls[c].pc \in {"loadPipeline", "loadModel"}
    /\ estimator' =
          IF estimator.class = "WorkingDepthEstimator"
          THEN [estimator EXCEPT !.pipeline = [model |-> WorkingModel, by |-> c]]
          ELSE [estimator EXCEPT !.session = [model |-> AnythingModel, by |-> c]]
    /\ estLog' = Append(estLog,
                        Event("loaded",
                              IF estimator.class = "WorkingDepthEstimator"
                              THEN WorkingModel ELSE AnythingModel, c))
    /\ calls' = [calls EXCEPT ![c].pc =
                   IF estimator.class = "WorkingDepthEstimator"
                   THEN "fromURL" ELSE "loadImage"]
    /\ EstimatorStep

\* it fails: throw new Error('Pipeline loading failed ...' / 'Model loading
\* failed ...') ends the call
LoadFails(c) ==
    /\ calls[c].pc \in {"loadPipeline", "loadModel"}
    /\ estLog' = Append(estLog,
                        Event("failed",
                              IF estimator.class = "WorkingDepthEstimator"
                              THEN WorkingModel ELSE AnythingModel, c))
    /\ calls' = [calls EXCEPT ![c] = IdleCall]
    /\ UNCHANGED estimator
    /\ EstimatorStep

\* createPipelineWithFallbacks: await pipeline('depth-estimation', model)
\* resolves: return pipe
FallbackLoads ==
    /\ estimator # NULL
    /\ estimator.class = "DepthEstimator"
    /\ estimator.pipePromise # NULL
    /\ estimator.pipePromise.state = "pending"
    /\ estimator' = [estimator EXCEPT !.pipePromise =
                       [state |-> "fulfilled",
                        model |-> ModelsToTry[estimator.pipePromise.trying]]]
    /\ estLog' = Append(estLog,
                        Event("loaded", ModelsToTry[estimator.pipePromise.trying],
                              estimator.pipePromise.by))
    /\ UNCHANGED calls
    /\ EstimatorStep

\* it rejects: the loop goes on to the next model, and after the last one
\* throw new Error('All depth estimation models failed to load')
FallbackFails ==
    /\ estimator # NULL
    /\ estimator.class = "DepthEstimator"
    /\ estimator.pipePromise # NULL
    /\ estimator.pipePromise.state = "pending"
    /\ LET k == estimator.pipePromise.trying
           by == estimator.pipePromise.by
       IN  IF k < Len(ModelsToTry)
           THEN /\ estimator' = [estimator EXCEPT !.pipePromise.trying = k + 1]
                /\ estLog' = estLog \o <<Event("failed", ModelsToTry[k], by),
                                         Event("load", ModelsToTry[k + 1], by)>>
           ELSE /\ estimator' = [estimator EXCEPT !.pipePromise =
                                    [state |-> "rejected"]]
                /\ estLog' = Append(estLog, Event("failed", ModelsToTry[k], by))
    /\ UNCHANGED calls
    /\ EstimatorStep

\* let pipe = await this.getPipeline() continues with the pipeline
PipelineAwaited(c) ==
    /\ calls[c].pc = "getPipeline"
    /\ estimator.pipePromise.state = "fulfilled"
    /\ calls' = [calls EXCEPT ![c].pc = "loadImage"]
    /\ UNCHANGED <<estimator, estLog>>
    /\ EstimatorStep

\* the awaited promise is rejected: the call throws
PipelineRejected(c) ==
    /\ calls[c].pc = "getPipeline"
    /\ estimator.pipePromise.state = "rejected"
    /\ calls' = [calls EXCEPT ![c] = IdleCall]
    /\ UNCHANGED <<estimator, estLog>>
    /\ EstimatorStep

\* the image is loaded (RawImage.fromURL / loadImage): WorkingDepthEstimator
\* and DepthEstimator call the pipeline, DepthAnythingEstimator preprocesses
ImageLoaded(c) ==
    /\ calls[c].pc \in {"fromURL", "loadImage"}
    /\ IF estimator.class = "DepthAnythingEstimator"
       THEN calls' = [calls EXCEPT ![c].pc = "preprocess"]
       ELSE calls' = [calls EXCEPT ![c] = Inferring(estimator)]
    /\ UNCHANGED <<estimator, estLog>>
    /\ EstimatorStep

\* the image does not load: the call throws
ImageFails(c) ==
    /\ calls[c].pc \in {"fromURL", "loadImage"}
    /\ calls' = [calls EXCEPT ![c] = IdleCall]
    /\ UNCHANGED <<estimator, estLog>>
    /\ EstimatorStep

\* DepthAnythingEstimator: await this.preprocessImage(img), then
\* this.session.run({ image: inputTensor })
Preprocessed(c) ==
    /\ calls[c].pc = "preprocess"
    /\ calls' = [calls EXCEPT ![c] = Inferring(estimator)]
    /\ UNCHANGED <<estimator, estLog>>
    /\ EstimatorStep

\* the inference resolves or rejects: the call returns its depth canvas, or
\* throws
InferenceEnds(c) ==
    /\ calls[c].pc = "inference"
    /\ calls' = [calls EXCEPT ![c] = IdleCall]
    /\ UNCHANGED <<estimator, estLog>>
    /\ EstimatorStep

-----------------------------------------------------------------------------
(* Specifications *)

Slots == 1 .. MaxInv

Init ==
    /\ imageURL = NULL
    /\ depthURL = NULL
    /\ loading = FALSE
    /\ error = NULL
    /\ useMock = TRUE
    /\ depthEstimatorRef = NULL
    /\ renderMode = "mesh"
    /\ particleDensity = MaxDensity
    /\ displacementScale = UNIT \div 20
    /\ animateParticles = FALSE
    /\ noiseType = "perlin"
    /\ animationSpeed = UNIT \div 2
    /\ noiseIntensity = UNIT \div 10
    /\ inv = [i \in Slots |-> IdleInv]
    /\ texCache = {}
    /\ particleData = NULL
    /\ samplingData = NULL
    /\ pointsRef = NULL
    /\ geometryId = 0
    /\ decodes = 0
    /\ lastFrame = NoFrame
    /\ stillFrame = NULL
    /\ glContext = "live"
    /\ survivors = {}
    /\ lastCall = NoCall
    /\ isOver = FALSE
    /\ entries = <<>>
    /\ listeners = <<>>
    /\ panels = [p \in Panels |-> NULL]
    /\ lastEmit = NoEmit
    /\ cleared = FALSE
    /\ estimator = NULL
    /\ calls = [c \in Callers |-> IdleCall]
    /\ estLog = <<>>
    /\ refFrame = NULL

\* the viewer and its particle field: one image selection at a time whose
\* depth estimation succeeds, the controls that select what is displayed,
\* and frames (never animated: the animation is SpecAnim's)
Next ==
    \/ \E f \in ViewerFiles : OnFilesStart(1, f)
    \/ OnFilesSucceeds(1)
    \/ TextureLoaded
    \/ \E b \in BOOLEAN : onToggleMock(b)
    \/ \E m \in {"mesh", "particles"} : onRenderModeChange(m)
    \/ \E d \in Densities : onParticleDensityChange(d)
    \/ \E v \in DisplacementScales : onScaleChange(v)
    \/ \E t \in Times : Frame(t)

Spec == Init /\ [][Next]_vars

\* the images of the animated viewer: one a single pixel wide, and one wider
\* than it is high
AnimFiles ==
    {[w |-> 1, h |-> MaxDim, ok |-> TRUE],
     [w |-> MaxDim, h |-> MaxDim - 1, ok |-> TRUE]}

\* the animated viewer: images with their mock depth, every toolbar control
\* of the particle display, and frames at any elapsed time
NextAnim ==
    \/ \E f \in AnimFiles : OnFilesStart(1, f)
    \/ MockDepthResolved(1)
    \/ BlobCreated(1)
    \/ TextureLoaded
    \/ \E m \in {"mesh", "particles"} : onRenderModeChange(m)
    \/ \E d \in Densities : onParticleDensityChange(d)
    \/ \E v \in DisplacementScales : onScaleChange(v)
    \/ \E b \in BOOLEAN : onToggleAnimation(b)
    \/ \E k \in {"perlin", "curl"} : onNoiseTypeChange(k)
    \/ \E v \in Speeds : onAnimationSpeedChange(v)
    \/ \E v \in Intensities : onNoiseIntensityChange(v)
    \/ \E t \in Times : Frame(t)

SpecAnim == Init /\ [][NextAnim]_vars

\* the image of the frame histories: 3 x 2 pixels
HistoryFiles == {[w |-> 3, h |-> 2, ok |-> TRUE]}

\* frame histories: selections of an image, the particle display, the
\* density, the animation switch and the noise type, and frames at any
\* elapsed time, one of which is kept as the reference
NextHistory ==
    \/ \E f \in HistoryFiles : OnFilesStart(1, f)
    \/ MockDepthResolved(1)
    \/ BlobCreated(1)
    \/ TextureLoaded
    \/ onRenderModeChange("particles")
    \/ \E d \in Densities : onParticleDensityChange(d)
    \/ \E b \in BOOLEAN : onToggleAnimation(b)
    \/ \E k \in {"perlin", "curl"} : onNoiseTypeChange(k)
    \/ \E t \in Times : Frame(t)
    \/ \E t \in Times : ReferenceFrame(t)

SpecHistory == Init /\ [][NextHistory]_vars

\* the viewer with the batched Frame Updater: images with their mock depth,
\* the density, animation and noise controls, and frames at any elapsed time
NextBatched ==
    \/ \E f \in AnimFiles : OnFilesStart(1, f)
    \/ MockDepthResolved(1)
    \/ BlobCreated(1)
    \/ TextureLoaded
    \/ \E m \in {"mesh", "particles"} : onRenderModeChange(m)
    \/ \E d \in Densities : onParticleDensityChange(d)
    \/ \E b \in BOOLEAN : onToggleAnimation(b)
    \/ \E k \in {"perlin", "curl"} : onNoiseTypeChange(k)
    \/ \E t \in Times : BatchedFrame(t)

SpecBatched == Init /\ [][NextBatched]_vars

\* the files of the overlapping selections: one that loads, one that does not
AppFiles == {[w |-> 2, h |-> 2, ok |-> TRUE], BadFile}

\* the App: overlapping image selections, in any interleaving
NextApp ==
    \/ \E i \in Slots, f \in AppFiles : OnFilesStart(i, f)
    \/ \E i \in Slots : OnFilesSucceeds(i)
    \/ \E i \in Slots : OnFilesFails(i)
    \/ TextureLoaded
    \/ \E b \in BOOLEAN : onToggleMock(b)

SpecApp == Init /\ [][NextApp]_vars

\* the pictures of the end-to-end scenario (uniform depth 0.2 and 0.6) and a
\* picture higher than wide, and the slider positions used with them
SceneFiles == {RedScene(51), RedScene(153), [w |-> 2, h |-> 3, ok |-> TRUE]}
SceneDensities == {2, 4}

\* the end-to-end scenario: a picture, its estimated or mock depth, the
\* particle display at a density and displacement scale, frames with and
\* without animation
NextScene ==
    \/ \E f \in SceneFiles : OnFilesStart(1, f)
    \/ OnFilesSucceeds(1)
    \/ TextureLoaded
    \/ \E b \in BOOLEAN : onToggleMock(b)
    \/ \E m \in {"mesh", "particles"} : onRenderModeChange(m)
    \/ \E d \in SceneDensities : onParticleDensityChange(d)
    \/ \E v \in DisplacementScales : onScaleChange(v)
    \/ \E b \in BOOLEAN : onToggleAnimation(b)
    \/ \E t \in Times : Frame(t)

SpecScene == Init /\ [][NextScene]_vars

\* the particle display through image selections that may fail: one
\* selection at a time, every outcome of its awaits, the display controls
\* and frames
NextBuild ==
    \/ \E f \in AppFiles : OnFilesStart(1, f)
    \/ OnFilesSucceeds(1)
    \/ OnFilesFails(1)
    \/ TextureLoaded
    \/ \E b \in BOOLEAN : onToggleMock(b)
    \/ \E m \in {"mesh", "particles"} : onRenderModeChange(m)
    \/ \E d \in Densities : onParticleDensityChange(d)
    \/ \E t \in Times : Frame(t)

SpecBuild == Init /\ [][NextBuild]_vars

\* the particle display of a canvas whose WebGL context may be lost and
\* restored at any time between frames
NextContext ==
    \/ \E f \in AnimFiles : OnFilesStart(1, f)
    \/ MockDepthResolved(1)
    \/ BlobCreated(1)
    \/ TextureLoaded
    \/ \E m \in {"mesh", "particles"} : onRenderModeChange(m)
    \/ \E d \in Densities : onParticleDensityChange(d)
    \/ ContextLost
    \/ ContextRestored
    \/ \E t \in Times : Frame(t)

SpecContext == Init /\ [][NextContext]_vars

\* the noise generators called directly, at any arguments in any order
NextNoise ==
    \/ \E seed \in Seeds, x \in NoiseInputs, y \in NoiseInputs, z \in NoiseInputs :
          NoiseCall(seed, x, y, z)
    \/ \E x \in CurlGrid, y \in CurlGrid, z \in CurlGrid : CurlCall(x, y, z)

SpecNoise == Init /\ [][NextNoise]_vars

\* the drop zone and the file input: drags, drops and picks of any files,
\* one selection in progress at a time, with mock depth
NextDrop ==
    \/ onDragOver
    \/ onDragLeave
    \/ \E files \in FileLists : onDrop(1, files)
    \/ \E files \in FileLists : onChange(1, files)
    \/ MockDepthResolved(1)
    \/ MockDepthRejected(1)
    \/ FallbackMockRejected(1)
    \/ BlobCreated(1)
    \/ TextureLoaded

SpecDrop == Init /\ [][NextDrop]_vars

\* the depth providers called directly: the edge estimator on pictures (the
\* viewer's and the black and white ones), the normalization on tensors,
\* the mock depth on every image size
NextDepth ==
    \/ \E f \in GoodFiles : EdgeDepthCall(DecodeColor(ObjectURL(1, f)))
    \/ \E white \in EdgeWhites : EdgeDepthCall(BlackAndWhite(white))
    \/ \E data \in Tensors : NormalizeCall(data)
    \/ \E w \in 1 .. MaxDim, h \in 1 .. MaxDim : MockDepthCall(w, h)

SpecDepth == Init /\ [][NextDepth]_vars

\* the logger with its callers and the debug panels
NextLog ==
    \/ \E level \in Levels, message \in Messages : Log(level, message)
    \/ \E p \in Panels : Clear(p)
    \/ \E p \in Panels, open \in BOOLEAN : MountPanel(p, open)
    \/ \E p \in Panels : UnmountPanel(p)
    \/ \E p \in Panels, checked \in BOOLEAN : onShowDebugChange(p, checked)

SpecLog == Init /\ [][NextLog]_vars

\* one estimator instance of any of the three classes and its callers, whose
\* calls overlap in any way; every load, image and inference may fail
NextEstimator ==
    \/ \E class \in {"WorkingDepthEstimator", "DepthAnythingEstimator",
                      "DepthEstimator"} : NewEstimator(class)
    \/ \E c \in Callers : estimateDepth(c)
    \/ \E c \in Callers : LoadSucceeds(c)
    \/ \E c \in Callers : LoadFails(c)
    \/ FallbackLoads
    \/ FallbackFails
    \/ \E c \in Callers : PipelineAwaited(c)
    \/ \E c \in Callers : PipelineRejected(c)
    \/ \E c \in Callers : ImageLoaded(c)
    \/ \E c \in Callers : ImageFails(c)
    \/ \E c \in Callers : Preprocessed(c)
    \/ \E c \in Callers : InferenceEnds(c)

SpecEstimator == Init /\ [][NextEstimator]_vars

-----------------------------------------------------------------------------
(* Properties *)

\* a defined number in [0, 1]
InUnit(a) == 0 <= a /\ a <= UNIT

\* a pixel position inside an image
InImage(xy, imageData) ==
    /\ 0 <= xy[1] /\ xy[1] <= imageData.width - 1
    /\ 0 <= xy[2] /\ xy[2] <= imageData.height - 1

\* C1: UV clamp invariant: in every animated frame, for every particle,
\* either noise kind, either intensity (up to 0.5), any speed and elapsed
\* time, the sampling coordinate after the noise offset is added satisfies
\* 0 <= u <= 1 and 0 <= v <= 1.
UVClampInvariant ==
    (lastFrame.kind = "ran" /\ lastFrame.animated) =>
        \A i \in DOMAIN lastFrame.particles :
            /\ InUnit(lastFrame.particles[i].uv[1])
            /\ InUnit(lastFrame.particles[i].uv[2])

\* C2: in every frame, every pixel position read by the depth sampler lies
\* inside the depth image and every position read by the color sampler lies
\* inside the color image (0 <= x <= width - 1, 0 <= y <= height - 1, each
\* with its own image's dimensions).
SamplerReadsInsideImage ==
    lastFrame.kind = "ran" =>
        \A i \in DOMAIN lastFrame.particles :
            /\ InImage(lastFrame.particles[i].depthAt, samplingData.depthImageData)
            /\ InImage(lastFrame.particles[i].colorAt, samplingData.colorImageData)

\* C3: one-time decode: while a ParticleSystem displays one image / depth
\* pair, through frames and parameter changes (density, scale), each image
\* has been decoded (getImageData) exactly once.
OneTimeDecode == samplingData # NULL => decodes = 1

\* every onFiles invocation has finished
AllIdle == \A i \in Slots : inv[i].pc = "idle"

\* C4: latest request wins: once all onFiles invocations have finished, the
\* committed depthURL is the one computed for the most recently selected
\* image (imageURL), whatever the order in which the builds completed.
LatestRequestWins ==
    (AllIdle /\ depthURL # NULL) => depthURL.of = imageURL

\* C5: when the selections have finished, an image that was selected has a
\* depth source: no selection finishes, after whatever failure, with
\* depthURL still null.
DepthFailureRecovered ==
    (AllIdle /\ imageURL # NULL) => depthURL # NULL

\* C6: base coordinates are immutable: a frame update (animated or not)
\* changes no baseU or baseV and nothing else of the field but its position
\* and color buffers.
BaseUVImmutable ==
    [][lastFrame'.kind = "ran" =>
          /\ particleData # NULL
          /\ particleData'.baseUV = particleData.baseUV
          /\ particleData' =
                [particleData EXCEPT !.position = particleData'.position,
                                     !.color = particleData'.color]]_vars

\* an animated frame has run that sampled a particle away from its base
\* coordinate
BaseUVImmutableWitness ==
    /\ lastFrame.kind = "ran"
    /\ lastFrame.animated
    /\ \E i \in DOMAIN lastFrame.particles :
          /\ InUnit(particleData.baseUV[i][1])
          /\ lastFrame.particles[i].uv # particleData.baseUV[i]
          /\ particleData.position[i] # <<0, 0, 0>>

\* C7: field size and clamping: the built field has sampleW = min(image
\* width, density), sampleH = min(image height, density) and exactly
\* sampleW * sampleH particles in row-major order; the particle at index
\* y * sampleW + x has base coordinates x / (sampleW - 1), y / (sampleH - 1)
\* (the value of 0 / 0 where the divisor is 0), which span [0, 1] evenly.
FieldSizeAndClamping ==
    particleData # NULL =>
        LET w == particleData.deps[1].file.w
            h == particleData.deps[1].file.h
            density == particleData.deps[3]
            sw == particleData.sampleW
            sh == particleData.sampleH
        IN  /\ sw = IF w < density THEN w ELSE density
            /\ sh = IF h < density THEN h ELSE density
            /\ Len(particleData.baseUV) = sw * sh
            /\ Len(particleData.position) = sw * sh
            /\ Len(particleData.color) = sw * sh
            /\ \A x \in 0 .. sw - 1, y \in 0 .. sh - 1 :
                  LET uv == particleData.baseUV[y * sw + x + 1]
                  IN  /\ IF sw > 1 THEN uv[1] * (sw - 1) = x * UNIT
                                   ELSE IsNaN(uv[1])
                      /\ IF sh > 1 THEN uv[2] * (sh - 1) = y * UNIT
                                   ELSE IsNaN(uv[2])

\* a field of more than one column and row built for an image smaller than
\* the density, as in the example: the image's size clamps the grid
FieldSizeAndClampingWitness ==
    /\ particleData # NULL
    /\ particleData.sampleW > 1
    /\ particleData.sampleH > 1
    /\ particleData.sampleW = particleData.deps[1].file.w
    /\ particleData.sampleW < particleData.deps[3]
    /\ particleData.sampleH = particleData.deps[1].file.h
    /\ particleData.sampleH < particleData.deps[3]

\* C8: for every image (width >= 1, height >= 1) and every density, also
\* when the sample width or height is 1, every particle's baseU and baseV is
\* a defined number in [0, 1].
BaseUVDefined ==
    particleData # NULL =>
        \A i \in DOMAIN particleData.baseUV :
            /\ InUnit(particleData.baseUV[i][1])
            /\ InUnit(particleData.baseUV[i][2])

\* a field as the builder leaves it: a grid of its size, positions at the
\* origin, colors white
Fresh(field) ==
    /\ Len(field.baseUV) = field.sampleW * field.sampleH
    /\ field.position = [i \in DOMAIN field.baseUV |-> <<0, 0, 0>>]
    /\ field.color = [i \in DOMAIN field.baseUV |-> <<UNIT, UNIT, UNIT>>]

UnconstructedFrameIdle ==
    [][(lastFrame'.kind # "none"
          /\ (particleData = NULL \/ samplingData = NULL \/ pointsRef = NULL)) =>
          /\ lastFrame'.kind = "skipped"
          /\ lastFrame'.wrote = 0
          /\ lastFrame'.notified = {}
          /\ lastFrame'.particles = <<>>
          /\ particleData' = particleData
          /\ pointsRef = NULL
          /\ pointsRef' = NULL]_vars

\* a frame has ticked while the depth map of a selected image was still
\* being estimated or loaded
UnconstructedFrameIdleWitness ==
    /\ lastFrame.kind = "skipped"
    /\ imageURL # NULL
    /\ renderMode = "particles"
    /\ particleData = NULL

\* C11: idempotence with animation disabled: a frame run with animation
\* disabled writes the same position and color buffers as every earlier frame
\* run with animation disabled for the same image, field and displacement
\* scale, at whatever elapsed time and with whatever speed, intensity and
\* noise kind either frame ran.
StillFrameIdempotent ==
    [][(lastFrame'.kind = "ran" /\ ~lastFrame'.animated /\ stillFrame # NULL) =>
          /\ particleData'.position = stillFrame.position
          /\ particleData'.color = stillFrame.color]_vars

\* a frame with animation disabled has run again on a field that an earlier
\* one had written, after the noise kind, the speed and the intensity were
\* changed, and the buffers hold sampled values
StillFrameIdempotentWitness ==
    /\ lastFrame.kind = "ran"
    /\ ~lastFrame.animated
    /\ lastFrame.repeat
    /\ noiseType = "curl"
    /\ animationSpeed # UNIT \div 2
    /\ noiseIntensity # UNIT \div 10
    /\ \E i \in DOMAIN particleData.position :
          /\ particleData.position[i][3] > 0
          /\ particleData.position[i] = stillFrame.position[i]

\* the red picture is on display as a 4 x 4 grid at displacement scale 1,
\* with the estimator's depth map of the picture's size
RedSceneShown ==
    /\ particleData # NULL
    /\ IsRedScene(imageURL.file)
    /\ depthURL.kind = "model"
    /\ particleDensity = 4
    /\ displacementScale = UNIT

\* C12: after a frame update every particle i has position
\* x = (u - 0.5) * aspect, y = -(v - 0.5), z = depth(u, v) * displacementScale
\* and color = colorSample(u, v), where (u, v) is its sampling coordinate,
\* the base coordinate when animation is disabled; for the 4 x 4 all-red
\* picture with uniform depth d at density 4, displacement scale 1 and
\* animation disabled, there are 16 particles, every color is (1, 0, 0),
\* every z is d, and x and y take exactly the values -0.5, -1/6, 1/6, 0.5.
FramePositions ==
    lastFrame.kind = "ran" =>
        /\ \A i \in DOMAIN particleData.position :
              LET p == lastFrame.particles[i]
              IN  /\ ~lastFrame.animated => p.uv = particleData.baseUV[i]
                  /\ particleData.position[i][1] =
                         Mul(Sub(p.uv[1], HALF), particleData.aspect)
                  /\ particleData.position[i][2] = Sub(HALF, p.uv[2])
                  /\ particleData.position[i][3] = Mul(p.depth, displacementScale)
                  /\ particleData.color[i] = p.col
        /\ (RedSceneShown /\ ~lastFrame.animated) =>
              /\ Len(particleData.position) = 16
              /\ particleData.aspect = UNIT
              /\ \A i \in 1 .. 16 :
                    /\ particleData.color[i] = <<UNIT, 0, 0>>
                    /\ particleData.position[i][3] * 255
                          = imageURL.file.gray * UNIT
              /\ {particleData.position[i][1] : i \in 1 .. 16}
                    = {0 - HALF, 0 - UNIT \div 6, UNIT \div 6, HALF}
              /\ {particleData.position[i][2] : i \in 1 .. 16}
                    = {0 - HALF, 0 - UNIT \div 6, UNIT \div 6, HALF}

\* the scenario has been run: a frame without animation on the red picture
\* with uniform depth 0.6
FramePositionsWitness ==
    /\ lastFrame.kind = "ran"
    /\ ~lastFrame.animated
    /\ RedSceneShown
    /\ imageURL.file.gray = 153
    /\ particleData.position[1] = <<0 - HALF, HALF, (6 * UNIT) \div 10>>

\* column x of an image of width w is the one a coordinate u in [0, 1]
\* selects: x = floor(u * (w - 1))
FloorColumn(x, u, w) ==
    /\ 0 <= x /\ x <= w - 1
    /\ x * UNIT <= u * (w - 1)
    /\ u * (w - 1) < (x + 1) * UNIT

\* the color and the depth a sampler returns for the bytes of a pixel
PixelColor(rgb) == <<Ratio(rgb[1], 255), Ratio(rgb[2], 255), Ratio(rgb[3], 255)>>
PixelDepth(gray) == Ratio(gray, 255)

\* a 2 x 2 picture, its four pixels distinct, and the estimator's 2 x 2
\* depth map of it
TwoByTwo == ObjectURL(1, [w |-> 2, h |-> 2, ok |-> TRUE])
TwoByTwoDepth == DepthURLOf(TwoByTwo, ModelCanvas(TwoByTwo.file, TRUE, FALSE))

\* the samples of the 2 x 2 example: (0, 0), (0.99, 0.99) and (0.5, 0.5)
\* give pixel (0, 0), (1, 1) gives pixel (1, 1), and the four pixels differ
TwoByTwoSamples ==
    /\ \A uv \in {<<0, 0>>, <<(99 * UNIT) \div 100, (99 * UNIT) \div 100>>,
                   <<HALF, HALF>>} :
          /\ sampleColor(DecodeColor(TwoByTwo), uv[1], uv[2])
                = PixelColor(ColorPixel(TwoByTwo.file, 0, 0))
          /\ sampleDepth(DecodeDepth(TwoByTwoDepth), uv[1], uv[2])
                = PixelDepth(DepthByte(TwoByTwoDepth, 0, 0))
    /\ sampleColor(DecodeColor(TwoByTwo), UNIT, UNIT)
          = PixelColor(ColorPixel(TwoByTwo.file, 1, 1))
    /\ sampleDepth(DecodeDepth(TwoByTwoDepth), UNIT, UNIT)
          = PixelDepth(DepthByte(TwoByTwoDepth, 1, 1))
    /\ Cardinality({ColorPixel(TwoByTwo.file, x, y) : x \in 0 .. 1, y \in 0 .. 1}) = 4
    /\ Cardinality({DepthByte(TwoByTwoDepth, x, y) : x \in 0 .. 1, y \in 0 .. 1}) = 4

LogPositions(log, e) == {k \in DOMAIN log : log[k] = e}

\* C14: in every frame in which the Frame Updater runs, the position and
\* color of every particle of the field are written before the presentation
\* layer is notified, and the position-changed and the color-changed
\* notification are each raised exactly once per frame, after the last
\* particle write (never per particle).
BatchedNotification ==
    lastFrame.kind = "ran" =>
        LET log == lastFrame.log
            writes == {k \in DOMAIN log : log[k].op = "write"}
            flags == {k \in DOMAIN log : log[k].op = "needsUpdate"}
        IN  /\ \A i \in DOMAIN particleData.position :
                  /\ Cardinality(LogPositions(log, [op |-> "write", particle |-> i])) = 1
                  /\ particleData.position[i] = lastFrame.particles[i].pos
                  /\ particleData.color[i] = lastFrame.particles[i].col
            /\ Cardinality(writes) = Len(particleData.position)
            /\ \A a \in {"position", "color"} :
                  Cardinality(LogPositions(log, [op |-> "needsUpdate",
                                                 attribute |-> a])) = 1
            /\ Cardinality(flags) = 2
            /\ \A w \in writes, f \in flags : w < f
            /\ lastFrame.notified = {"position", "color"}
            /\ lastFrame.wrote = Len(particleData.position)

\* a frame has run on a field of several particles and flagged both
\* attributes at the end of its log
BatchedNotificationWitness ==
    /\ lastFrame.kind = "ran"
    /\ Len(particleData.position) > 2
    /\ Len(lastFrame.log) = Len(particleData.position) + 2
    /\ lastFrame.log[Len(lastFrame.log)].op = "needsUpdate"
    /\ particleData.position[1] # <<0, 0, 0>>

TablesArePermutations ==
    \A seed \in Seeds :
        /\ DOMAIN Tables[seed] = 0 .. 511
        /\ {Tables[seed][i] : i \in 0 .. 255} = 0 .. 255
        /\ \A i \in 0 .. 255 : Tables[seed][i + 256] = Tables[seed][i]

\* for every cell (X, Y, Z) of every table, the indexes noise() computes
\* stay in the table: A, B = p[X] + Y, p[X + 1] + Y and any of
\* AA, AB, BA, BB = p[a] + Z, each also incremented by one
AllIndexesInTable ==
    \A seed \in Seeds :
        /\ \A X \in 0 .. 255, Y \in 0 .. 255 :
              /\ X + 1 \in 0 .. 511
              /\ Tables[seed][X] + Y + 1 \in 0 .. 511
              /\ Tables[seed][X + 1] + Y + 1 \in 0 .. 511
        /\ \A a \in 0 .. 511, Z \in 0 .. 255 :
              Tables[seed][a] + Z + 1 \in 0 .. 511

\* C17: after PerlinNoise is constructed with a non-negative integer seed
\* (the program uses 42) the table has exactly 512 entries, entries 0 .. 255
\* are a permutation of 0 .. 255 and entry i + 256 equals entry i; every
\* table index a call of noise() computes (X, X+1, A, A+1, B, B+1, AA, AA+1,
\* AB, AB+1, BA, BA+1, BB, BB+1) lies in 0 .. 511, for every input.
PermutationTableIndexes ==
    /\ TablesArePermutations
    /\ AllIndexesInTable
    /\ lastCall.fn = "noise" =>
          LET ix == lastCall.indexes
          IN  \A k \in {lastCall.cell[1], ix.A, ix.B, ix.AA, ix.AB, ix.BA, ix.BB} :
                  /\ k \in 0 .. 511
                  /\ k + 1 \in 0 .. 511

\* noise() has been called in cell 255 with a negative coordinate and has
\* read the second half of the table
PermutationTableIndexesWitness ==
    /\ lastCall.fn = "noise"
    /\ lastCall.seed = Seed
    /\ lastCall.args[1] < 0
    /\ lastCall.cell[1] = 255
    /\ lastCall.indexes.A > 255
    /\ lastCall.indexes.BB > 255
    /\ lastCall.result # 0

\* 2 * epsilon times the divergence of the curl field at (x, y, z),
\* estimated by central differences of step epsilon
DivergenceSum(x, y, z, e) ==
    Add(Add(Sub(Curl(Add(x, e), y, z, e).x, Curl(Sub(x, e), y, z, e).x),
            Sub(Curl(x, Add(y, e), z, e).y, Curl(x, Sub(y, e), z, e).y)),
        Sub(Curl(x, y, Add(z, e), e).z, Curl(x, y, Sub(z, e), e).z))

\* C18: divergence-free curl: at every point of the sample grid at which
\* curl() is called, the divergence of the curl field, estimated by central
\* differences with the step of curl's own epsilon, is below 0.001 in
\* magnitude.
CurlDivergenceFree ==
    lastCall.fn = "curl" =>
        Abs(Div(DivergenceSum(lastCall.args[1], lastCall.args[2],
                              lastCall.args[3], Epsilon),
                Scale(Epsilon, 2))) * 1000 < UNIT

\* curl() has returned a flow at a point where the field varies
CurlDivergenceFreeWitness ==
    /\ lastCall.fn = "curl"
    /\ lastCall.result.x # 0
    /\ lastCall.result.y # 0
    /\ Curl(Add(lastCall.args[1], Epsilon), lastCall.args[2], lastCall.args[3],
            Epsilon).x
         # Curl(Sub(lastCall.args[1], Epsilon), lastCall.args[2],
                lastCall.args[3], Epsilon).x

\* a field all of whose buffers have the size of its grid
Complete(field) ==
    /\ Len(field.baseUV) = field.sampleW * field.sampleH
    /\ Len(field.position) = Len(field.baseUV)
    /\ Len(field.color) = Len(field.baseUV)

\* C19: if the build for a new image fails (here: an image that cannot be
\* loaded), no partially built field becomes visible, and the component that
\* held a valid field keeps presenting it: the selection of such an image
\* leaves the field and its points object on display.
PreviousFieldKept ==
    [][/\ particleData' # NULL => Complete(particleData')
       /\ (particleData # NULL /\ imageURL' # imageURL /\ ~imageURL'.file.ok) =>
             /\ particleData' = particleData
             /\ pointsRef' = pointsRef]_vars

\* C20: context-loss contract: a context-lost event may arrive at any time
\* between frames; once the context has been lost and restored, the image
\* buffers, the particle field and the textures are re-created before a
\* later frame update uses them: no frame runs on a resource that was
\* created before the restoration.
RecreatedAfterRestore ==
    lastFrame.kind = "ran" => survivors = {}

\* an onFiles invocation has started and not yet finished
InFlight == \E i \in Slots : inv[i].pc # "idle"

\* C25: in every reachable state, overlapping image selections included, the
\* loading flag is true if and only if at least one onFiles invocation has
\* started and not yet finished: an invocation that ends leaves loading
\* false only when no other invocation is still in flight.
LoadingIffInFlight == loading <=> InFlight

\* C26: in every reachable state in which both imageURL and depthURL are
\* non-null (the viewer renders a mesh or a particle system), depthURL was
\* computed from the image currently at imageURL, for any interleaving of
\* selections and completions.
DepthOfCurrentImage ==
    (imageURL # NULL /\ depthURL # NULL) => depthURL.of = imageURL

\* each listener of a sequence occurs in it exactly once
OncePerListener(notified, ls) ==
    /\ Members(notified) = Members(ls)
    /\ \A l \in Members(ls) :
          Cardinality({k \in DOMAIN notified : notified[k] = l}) = 1

\* C27: each logger.debug / info / warn / error call appends exactly one
\* entry to the end of the log buffer (entries stay in emission order) and
\* then notifies every listener subscribed at that moment exactly once; a
\* listener that reads getEntries() during its notification sees the new
\* entry as the last one; a listener whose unsubscribe function has been
\* called is not notified.
LogAppendsAndNotifies ==
    [][lastEmit'.via = "log" =>
          /\ entries' = Append(entries, lastEmit'.entry)
          /\ OncePerListener(lastEmit'.notified, listeners)
          /\ \A k \in DOMAIN lastEmit'.saw :
                LET seen == lastEmit'.saw[k]
                IN  seen # <<>> /\ seen[Len(seen)] = lastEmit'.entry
          /\ \A p \in Panels :
                IF panels[p] # NULL
                THEN panels'[p].entries = entries'
                ELSE p \notin Members(lastEmit'.notified) /\ panels'[p] = NULL]_vars

\* a log call reached two listeners, subscribed in the order 2, 1, with
\* earlier entries in the buffer
LogAppendsAndNotifiesWitness ==
    /\ lastEmit.via = "log"
    /\ lastEmit.notified = <<2, 1>>
    /\ Len(entries) = MaxLog
    /\ entries[1] # entries[MaxLog]
    /\ lastEmit.entry = entries[MaxLog]

\* C28: after logger.clear() the log buffer contains exactly one entry, the
\* info entry 'Logs cleared', and every subscribed listener has been notified
\* of it; once clear() has been called the buffer is never empty again and no
\* debug panel shows 'No logs'.
ClearLeavesOneEntry ==
    /\ [][lastEmit'.via = "clear" =>
             /\ entries' = <<[level |-> "info", message |-> "Logs cleared"]>>
             /\ OncePerListener(lastEmit'.notified, listeners)
             /\ \A k \in DOMAIN lastEmit'.saw : lastEmit'.saw[k] = entries']_vars
    /\ [](cleared => /\ entries # <<>>
                     /\ \A p \in Panels : ~ShowsNoLogs(p))

\* the buffer held several entries, clear() was called with two panels
\* subscribed, and a panel has mounted and a call has been logged since
ClearLeavesOneEntryWitness ==
    /\ cleared
    /\ Len(entries) = 2
    /\ entries[1] = ClearedEntry
    /\ entries[2].level = "error"
    /\ \A p \in Panels : panels[p] # NULL /\ panels[p].open
    /\ listeners = <<2, 1>>

\* the events of estLog with the given op, in order
EventsOf(op) == SelectSeq(estLog, LAMBDA e : e.op = op)

\* C24: model fallback chain: DepthEstimator.createPipelineWithFallbacks
\* attempts the models in the fixed order Xenova/midas-v2-small,
\* Xenova/dpt-hybrid, Xenova/dpt-large, each attempt after the first directly
\* after the failure of the one before; it returns the first pipeline that
\* loads without attempting any later model, and fails only after all three
\* attempts have failed.
FallbackChain ==
    (estimator # NULL /\ estimator.class = "DepthEstimator"
        /\ estimator.pipePromise # NULL) =>
      LET order == <<"Xenova/midas-v2-small", "Xenova/dpt-hybrid",
                     "Xenova/dpt-large">>
          loads == EventsOf("load")
          failed == EventsOf("failed")
          promise == estimator.pipePromise
      IN  /\ Len(loads) \in 1 .. 3
          /\ \A k \in DOMAIN loads : loads[k].model = order[k]
          /\ \A k \in DOMAIN failed : failed[k].model = order[k]
          /\ \A k \in DOMAIN estLog :
                (estLog[k].op = "load" /\ k > 1) => estLog[k - 1].op = "failed"
          /\ \A k \in DOMAIN estLog :
                estLog[k].op = "loaded" => k = Len(estLog)
          /\ promise.state = "pending" => Len(failed) = Len(loads) - 1
          /\ promise.state = "fulfilled" =>
                /\ estLog[Len(estLog)] =
                      [op |-> "loaded", model |-> order[Len(loads)],
                       by |-> loads[1].by]
                /\ promise.model = order[Len(loads)]
                /\ Len(failed) = Len(loads) - 1
          /\ promise.state = "rejected" =>
                Len(failed) = 3 /\ EventsOf("loaded") = <<>>
          /\ \A c \in Callers :
                calls[c].pc \in {"loadImage", "inference"} =>
                    promise.state = "fulfilled"

\* the third model loaded after the first two had failed, and two calls,
\* one of which started the load, run on its pipeline
FallbackChainWitness ==
    /\ estimator # NULL
    /\ estimator.class = "DepthEstimator"
    /\ estimator.pipePromise # NULL
    /\ estimator.pipePromise.state = "fulfilled"
    /\ estimator.pipePromise.model = "Xenova/dpt-large"
    /\ Len(estLog) = 6
    /\ \A c \in Callers : calls[c].pc = "inference"

\* C29: for one WorkingDepthEstimator instance, and likewise one
\* DepthAnythingEstimator instance, over any interleaving of overlapping
\* estimateDepth calls, the model / pipeline load is started at most once, and
\* no inference runs before that load has completed.
LoadStartedOnce ==
    (estimator # NULL /\ estimator.class \in {"WorkingDepthEstimator",
                                              "DepthAnythingEstimator"}) =>
        /\ LoadsStarted <= 1
        /\ \A c \in Callers : calls[c].pc = "inference" => calls[c].ready

\* C21: every depth value a depth provider produces lies in [0, 1]: each
\* entry of the depth map of SimpleDepthEstimator.computeEdgeDepth, each
\* min-max normalized value of DepthEstimator.estimateDepth (a constant
\* tensor included) and each value of the radial mock depth is >= 0 and
\* <= 1, so every gray level written to a depth canvas is in 0 .. 255 before
\* clamping.
DepthValuesInUnit ==
    lastCall.fn \in {"computeEdgeDepth", "normalize", "generateMockDepth"} =>
        \A i \in DOMAIN lastCall.depthMap :
            /\ InUnit(lastCall.depthMap[i])
            /\ GrayLevel(lastCall.depthMap[i]) \in 0 .. 255

\* C22: the app accepts only JPG, PNG and WebP images: every file passed to
\* onFiles, whether dropped on the drop zone or chosen through the file
\* input, has MIME type image/jpeg, image/png or image/webp; a drop that
\* contains no accepted file does not invoke onFiles and changes no image,
\* depth, error or loading state.
AcceptsOnlyImages ==
    [][lastCall'.fn \in {"onDrop", "onChange"} =>
          LET types == {ImageJpeg, ImagePng, ImageWebp}
              event == lastCall'
          IN  /\ \A k \in DOMAIN event.passed :
                    \A j \in DOMAIN event.passed[k] :
                        event.passed[k][j].type \in types
              /\ (event.fn = "onDrop"
                    /\ \A j \in DOMAIN event.files :
                          event.files[j].type \notin types) =>
                    /\ event.passed = <<>>
                    /\ UNCHANGED <<imageURL, depthURL, error, loading, inv>>]_vars

\* C30: in the batched Frame Updater, every frame that writes any position
\* or color also raises the position-changed and the color-changed
\* notification in that same frame, whatever the particle count and the
\* elapsed time.
BatchedFrameNotifies ==
    (lastFrame.kind = "batch" /\ lastFrame.wrote > 0) =>
        lastFrame.notified = {"position", "color"}

\* C23: frame output is history-independent: a frame that reads the same
\* base coordinates, image buffers, displacement scale and animation
\* parameters and elapsed time as an earlier frame writes the same positions
\* and colors, whatever frames and parameter changes lie between the two.
FrameHistoryIndependent ==
    [][\A t \in Times :
          (refFrame # NULL /\ FrameGuard /\ Frame(t)
              /\ FrameInputs(t) = refFrame.inputs) =>
                /\ particleData'.position = refFrame.position
                /\ particleData'.color = refFrame.color]_vars

\* a frame repeats the inputs of the reference frame, with animation on,
\* after the field has been rebuilt in between
FrameHistoryIndependentWitness ==
    /\ refFrame # NULL
    /\ FrameGuard
    /\ lastFrame.kind = "ran"
    /\ lastFrame.animated
    /\ particleData.id # refFrame.geometry
    /\ \E t \in Times : FrameInputs(t) = refFrame.inputs
    /\ particleData.position = refFrame.position
    /\ particleData.color = refFrame.color

=============================================================================
